---- MODULE Spec2Model ----
(***************************************************************************)
(* IC body geometry pipeline of AuthentiChip:                              *)
(*   ICDimensionAnalyzer.analyze   (app/services/crop_dimensions/          *)
(*                                   dimensions.py)                        *)
(*   SmartCropper.process_image    (app/services/crop_dimensions/          *)
(*                                   smart_crop.py)                        *)
(*                                                                         *)
(* Numbers.  Lengths the geometry library reports as floats (the sides of  *)
(* the minimum-area rectangle) are kept in half pixels: a name ending in   *)
(* 2 holds twice the length in pixels, so that int(w + 2*pad) truncates.   *)
(* Indices into a profile and differences of indices are whole pixels.     *)
(* Threshold ratios are kept in thousandths (0.959 is 959).  A quotient    *)
(* such as ar_est is the pair <<numerator, denominator>> and is compared   *)
(* by cross multiplication.  A projection profile holds whole foreground   *)
(* pixel counts (the mask is 0/255 and is divided by 255).                 *)
(***************************************************************************)
EXTENDS Integers, Sequences, FiniteSets, TLC

VARIABLES
    img,         \* the image the caller holds
    debug_mode,  \* ICDimensionAnalyzer.debug_mode
    runs,        \* the analyze calls made on img: <<[dbg, out], ...>>
    cropOut,     \* what the last process_image call on img returned
    task,        \* per thread: the call in progress on a shared object
    response,    \* the answer to the last process request for the scan
    probe,       \* a profile and a ratio, and what get_range returned
    store        \* the scan collection, the upload directory, the wall
                 \* clock and the requests being served

vars == <<img, debug_mode, runs, cropOut, task, response, probe, store>>

\* ------------------------------------------------------------- bounds
\* longest list of external contours findContours returns
MaxContours == 2
\* the rectangle's sides exceed the blob's pixel extent minus one by
\* 0 .. MaxFrac half pixels
MaxFrac == 2
\* analyze calls recorded per image
MaxRuns == 2

\* ------------------------------------------------------ program constants
pad == 50
MIN_DIM == 10

\* ------------------------------------------------------------ helpers
\* F at the value of e: LET x == e IN F(x), with e evaluated once
Let(e, F(_)) == CHOOSE r \in { F(x) : x \in { e } } : TRUE

SetMin(S) == Let(S, LAMBDA T : CHOOSE m \in T : \A x \in T : m <= x)
SetMax(S) == -Let({ -x : x \in S }, LAMBDA T : CHOOSE m \in T : \A x \in T : m <= x)

\* a < b, a > b for quotients <<n, d>> with d > 0
QLess(a, b) == a[1] * b[2] < b[1] * a[2]
QGreater(a, b) == a[1] * b[2] > b[1] * a[2]

\* ------------------------------------------------------------- inputs
(***************************************************************************)
(* An input image is described by what the OpenCV calls return on it:      *)
(*   area      img.shape[0] * img.shape[1]                                 *)
(*   contours  the areas cv2.contourArea gives for the external contours   *)
(*             of the cleaned mask, in findContours order                  *)
(*   rw2, rh2, rangle   cv2.minAreaRect of the selected contour            *)
(*   roiNone   cv2.getRectSubPix yields no region                          *)
(*   blob, ox, oy       the foreground of the straightened mask inside the *)
(*             region of interest: a body rectangle bw x bh with a pin     *)
(*             band above (pt rows) and below (pb rows) that covers tw     *)
(*             columns from body column tc on, and a lead band left (pl    *)
(*             columns) and right (pr columns) that covers lh rows from    *)
(*             body row lr on; its bounding box starts at column ox and    *)
(*             row oy of the region.                                       *)
(*   nb        foreground of the straightened mask that belongs to another *)
(*             object lying inside the padded region: the rectangle        *)
(*             [x0, x1) x [y0, y1) in region coordinates, empty when the   *)
(*             body stands alone.                                          *)
(* The blob is drawn in the normalized frame (long side horizontal).       *)
(***************************************************************************)
Blob(bw, bh, pt, pb, tw, tc, pl, pr, lh, lr) ==
    [bw |-> bw, bh |-> bh, pt |-> pt, pb |-> pb, tw |-> tw, tc |-> tc,
     pl |-> pl, pr |-> pr, lh |-> lh, lr |-> lr]

BlobW(b) == b.pl + b.bw + b.pr
BlobH(b) == b.pt + b.bh + b.pb

\* plain bodies without pins: <<bw, bh>>
PlainBlobs ==
    { Blob(d[1], d[2], 0, 0, 0, 0, 0, 0, 0, 0) :
        d \in { <<14, 12>>, <<28, 21>>, <<28, 11>>, <<30, 11>>, <<24, 14>>,
                <<12, 8>>, <<9, 9>>, <<55, 21>> } }

\* DIP style: pin rows above and below a long body
DipBlobs ==
    { Blob(40, 12, p[1], p[2], tw, 5, 0, 0, 0, 0) :
        p \in { <<1, 1>>, <<2, 2>>, <<3, 3>>, <<1, 4>> },
        tw \in { 7, 30, 37 } }
    \cup { Blob(80, 51, 5, 6, 70, 5, 0, 0, 0, 0),
           Blob(80, 51, 6, 6, 70, 5, 0, 0, 0, 0) }

\* SOIC style: lead columns left and right of the body
SoicBlobs ==
    { Blob(d[1], d[2], 0, 0, 0, 0, q[1], q[2], lh, 1) :
        d \in { <<21, 12>>, <<14, 12>>, <<24, 10>> },
        q \in { <<1, 1>>, <<2, 2>>, <<0, 3>> },
        lh \in { 4, 7 } }

\* bodies at the edges of the refiner's tests: pin rows at exactly 0.95 of
\* the body rows; a single lead row, so that one row alone exceeds 0.9 of
\* the row maximum; a body taller than wide between leads that make the
\* whole part wider than tall
EdgeBlobs ==
    { Blob(60, 12, 2, 2, 57, 1, 0, 0, 0, 0),
      Blob(21, 12, 0, 0, 0, 0, 2, 2, 1, 5),
      Blob(24, 26, 0, 0, 0, 0, 2, 2, 20, 3) }

Blobs == PlainBlobs \cup DipBlobs \cup SoicBlobs \cup EdgeBlobs

DefaultBlob == Blob(40, 12, 2, 2, 30, 5, 0, 0, 0, 0)

\* nothing but the body inside the padded region
NoNeighbour == [x0 |-> 0, x1 |-> 0, y0 |-> 0, y1 |-> 0]

Raster(area, contours, rw2, rh2, rangle, roiNone, blob, ox, oy) ==
    [kind |-> "raster", area |-> area, contours |-> contours,
     rw2 |-> rw2, rh2 |-> rh2, rangle |-> rangle, roiNone |-> roiNone,
     blob |-> blob, ox |-> ox, oy |-> oy, nb |-> NoNeighbour]

\* image i with a second object whose foreground covers nb in the region
WithNeighbour(i, nb) == [i EXCEPT !.nb = nb]

\* cv2.imread could not decode the file / the caller passed None
NullImage ==
    [kind |-> "null", area |-> 0, contours |-> <<>>,
     rw2 |-> 0, rh2 |-> 0, rangle |-> 0, roiNone |-> FALSE,
     blob |-> DefaultBlob, ox |-> 0, oy |-> 0, nb |-> NoNeighbour]

\* a zero-sized raster, e.g. np.zeros((0, 0, 3)) or an image file without
\* pixels
EmptyImage ==
    [kind |-> "empty", area |-> 0, contours |-> <<>>,
     rw2 |-> 0, rh2 |-> 0, rangle |-> 0, roiNone |-> FALSE,
     blob |-> DefaultBlob, ox |-> 0, oy |-> 0, nb |-> NoNeighbour]

\* cv2.imread(image_path): None for a file it cannot decode into pixels
Imread(i) == IF i.kind = "empty" THEN NullImage ELSE i

\* the rectangle minAreaRect reports for blob b: the side along the blob's
\* long axis is its pixel extent minus one plus f half pixels; the library
\* reports the sides in either order (swap) with angle a
ImageOf(area, contours, b, f, swap, a, roiNone) ==
    LET w2 == 2 * (BlobW(b) - 1) + f
        h2 == 2 * (BlobH(b) - 1) + f
    IN  Raster(area, contours,
               IF swap THEN h2 ELSE w2, IF swap THEN w2 ELSE h2, a,
               roiNone, b, pad - (f % 2), pad)

\* img.shape[0] * img.shape[1]
ImageArea == 200 * 200

\* contour areas: 0.5%, 1%, 50%, 75% and 90% of ImageArea
AreaChoices == { 200, 400, 20000, 30000, 36000 }

ContourLists ==
    UNION { [1..n -> AreaChoices] : n \in 0..MaxContours }

\* <<swap, angle>> as minAreaRect reports them
Orientations == { <<FALSE, 10>>, <<TRUE, 10>>, <<TRUE, -45>>, <<FALSE, -90>> }

\* a dark SynthW x SynthH rectangle drawn at theta degrees in the middle of a
\* bright 800x600 image
SynthW == 300
SynthH == 100
SynthAngles == { 0, 10, 15, 45, 89 }

\* the range in which the installed cv2.minAreaRect reports its angle:
\* [-90, 0) before OpenCV 4.5.1, (0, 90] since
AngleRanges == { "[-90,0)", "(0,90]" }

\* cv2.minAreaRect on the rectangle drawn at theta: <<swap, angle>>, swap
\* when the short side is reported as the width.  The reported width is
\* the side along the direction of angle; an angle outside the range is
\* reported as the perpendicular direction with the sides exchanged.
MinAreaRectAngle(theta, lib) ==
    IF lib = "(0,90]"
    THEN IF theta = 0 THEN <<TRUE, 90>> ELSE <<FALSE, theta>>
    ELSE <<TRUE, theta - 90>>

SyntheticImage(theta, lib) ==
    ImageOf(800 * 600, <<SynthW * SynthH>>,
            Blob(SynthW, SynthH, 0, 0, 0, 0, 0, 0, 0, 0), 0,
            MinAreaRectAngle(theta, lib)[1], MinAreaRectAngle(theta, lib)[2], FALSE)

SyntheticImages ==
    { SyntheticImage(theta, lib) : theta \in SynthAngles, lib \in AngleRanges }

\* a second, smaller object inside the padded region: above the body
\* (21 columns wide, 16 rows, 4 rows of background between) or to its right
\* (15 columns wide, as tall as the body, 3 columns of background between)
NeighbourImages ==
    { WithNeighbour(ImageOf(ImageArea, <<20000, 400>>,
                            Blob(40, 12, 0, 0, 0, 0, 0, 0, 0, 0), f, FALSE, 10, FALSE),
                    [x0 |-> pad, x1 |-> pad + 21, y0 |-> pad - 20, y1 |-> pad - 4]) :
        f \in 0..MaxFrac }
    \cup
    { WithNeighbour(ImageOf(ImageArea, <<20000, 400>>,
                            Blob(28, 21, 0, 0, 0, 0, 0, 0, 0, 0), f, FALSE, 10, FALSE),
                    [x0 |-> pad + 31, x1 |-> pad + 46, y0 |-> pad, y1 |-> pad + 21]) :
        f \in 0..MaxFrac }

Images ==
    { ImageOf(ImageArea, <<20000>>, b, f, FALSE, 10, FALSE) :
        b \in Blobs, f \in 0..MaxFrac }
    \cup { ImageOf(ImageArea, <<20000>>, b, f, o[1], o[2], FALSE) :
        b \in { DefaultBlob, Blob(14, 12, 0, 0, 0, 0, 0, 0, 0, 0),
                Blob(9, 9, 0, 0, 0, 0, 0, 0, 0, 0) },
        f \in 0..MaxFrac, o \in Orientations }
    \cup { ImageOf(ImageArea, c, DefaultBlob, 0, FALSE, 10, FALSE) :
        c \in ContourLists }
    \cup { ImageOf(ImageArea, <<20000>>, b, 0, TRUE, 10, TRUE) :
        b \in { DefaultBlob, Blob(12, 8, 0, 0, 0, 0, 0, 0, 0, 0) } }
    \cup SyntheticImages
    \cup NeighbourImages
    \cup { NullImage, EmptyImage }

\* ------------------------------------------------ body contour selector
\* the lower bound taken inclusive
AreaRetainedInclusive(a, imgArea) == 100 * a >= imgArea /\ 10 * a < 9 * imgArea

\* dimensions.py:139:  0.01 * img_area < area < 0.9 * img_area
AreaRetained(a, imgArea) == 100 * a > imgArea /\ 10 * a < 9 * imgArea

\* indices of the contours that pass the area filter
ValidContours(i) ==
    { k \in 1..Len(i.contours) : AreaRetained(i.contours[k], i.area) }

\* the first retained contour instead of the largest
FirstValid(i) ==
    SetMin({ k \in 1..Len(i.contours) : AreaRetained(i.contours[k], i.area) })

\* max(valid_contours, key=cv2.contourArea): the first contour of largest
\* area
LargestValid(i) ==
    LET valid == ValidContours(i)
        top == SetMax({ i.contours[k] : k \in valid })
    IN  SetMin({ k \in valid : i.contours[k] = top })

\* falls back to the first contour when none is retained
FindIcBodyContourFallback(i) ==
    IF Len(i.contours) = 0 THEN 0
    ELSE IF { k \in 1..Len(i.contours) : AreaRetained(i.contours[k], i.area) } = {}
    THEN 1
    ELSE LargestValid(i)

\* _find_ic_body_contour: 0 (None) when there is no contour or none is
\* retained
FindIcBodyContour(i) ==
    IF Len(i.contours) = 0 THEN 0
    ELSE IF ValidContours(i) = {} THEN 0
    ELSE LargestValid(i)

\* ------------------------------------------------ orientation normalizer
\* swaps a square rectangle as well
NormalizeSwapOnEqual(rw2, rh2, rangle) ==
    IF rw2 <= rh2
    THEN [w2 |-> rh2, h2 |-> rw2, angle |-> rangle + 90]
    ELSE [w2 |-> rw2, h2 |-> rh2, angle |-> rangle]

\* dimensions.py:177-179
Normalize(rw2, rh2, rangle) ==
    IF rw2 < rh2
    THEN [w2 |-> rh2, h2 |-> rw2, angle |-> rangle + 90]
    ELSE [w2 |-> rw2, h2 |-> rh2, angle |-> rangle]

\* the region cut without padding
RoiDimNoPad(side2) == side2 \div 2

\* roi_w, roi_h = int(w + pad*2), int(h + pad*2)
RoiDim(side2) == (side2 + 2 * (pad * 2)) \div 2

\* cv2.getRectSubPix(rotated_mask, (roi_w, roi_h), center)
GetRectSubPix(i, roi_w, roi_h) ==
    [none |-> i.roiNone, w |-> roi_w, h |-> roi_h]

\* ------------------------------------------------ projection profiles
\* number of integers in [a, b) that lie in [0, n)
Overlap(a, b, n) ==
    LET lo == IF a < 0 THEN 0 ELSE a
        hi == IF b > n THEN n ELSE b
    IN  IF hi > lo THEN hi - lo ELSE 0

\* the foreground rectangles [x0, x1) x [y0, y1) of the straightened mask,
\* in region coordinates
Rects(i) ==
    LET b == i.blob
        bx == i.ox + b.pl
        by == i.oy + b.pt
    IN  << [x0 |-> bx, x1 |-> bx + b.bw, y0 |-> by, y1 |-> by + b.bh],
           [x0 |-> bx + b.tc, x1 |-> bx + b.tc + b.tw, y0 |-> i.oy, y1 |-> by],
           [x0 |-> bx + b.tc, x1 |-> bx + b.tc + b.tw,
            y0 |-> by + b.bh, y1 |-> by + b.bh + b.pb],
           [x0 |-> i.ox, x1 |-> bx, y0 |-> by + b.lr, y1 |-> by + b.lr + b.lh],
           [x0 |-> bx + b.bw, x1 |-> bx + b.bw + b.pr,
            y0 |-> by + b.lr, y1 |-> by + b.lr + b.lh],
           i.nb >>

RowPart(r, y, roi) ==
    IF r.y0 <= y /\ y < r.y1 THEN Overlap(r.x0, r.x1, roi.w) ELSE 0

ColPart(r, x, roi) ==
    IF r.x0 <= x /\ x < r.x1 THEN Overlap(r.y0, r.y1, roi.h) ELSE 0

\* row_sum = np.sum(roi, axis=1) / 255.0
RowSum(i, roi) ==
    Let(Rects(i), LAMBDA r :
        [y \in 0..(roi.h - 1) |->
            RowPart(r[1], y, roi) + RowPart(r[2], y, roi) + RowPart(r[3], y, roi)
            + RowPart(r[4], y, roi) + RowPart(r[5], y, roi)
            + RowPart(r[6], y, roi)])

\* col_sum = np.sum(roi, axis=0) / 255.0
ColSum(i, roi) ==
    Let(Rects(i), LAMBDA r :
        [x \in 0..(roi.w - 1) |->
            ColPart(r[1], x, roi) + ColPart(r[2], x, roi) + ColPart(r[3], x, roi)
            + ColPart(r[4], x, roi) + ColPart(r[5], x, roi)
            + ColPart(r[6], x, roi)])

ProfileMax(profile) == SetMax({ profile[k] : k \in DOMAIN profile })

\* the pairs <<ratio, max_val>> with a whole exact product for which the
\* double product max_val * threshold_ratio is rounded below it (binary64,
\* the ratios of the code, maxima up to 450): 50.0 * 0.58 is
\* 28.999999999999996 and 90.0 * 0.7 is 62.99999999999999
ProductRoundsBelow ==
    { <<580, 50>>, <<580, 100>>, <<580, 200>>, <<580, 400>>,
      <<700, 90>>, <<700, 170>>, <<700, 180>>, <<700, 330>>, <<700, 340>>,
      <<700, 350>>, <<700, 360>> }

\* v > max_val * threshold_ratio in exact arithmetic
ExceedsExact(v, max_val, ratio) == v * 1000 > max_val * ratio

\* profile > max_val * threshold_ratio for a whole count v: the comparison
\* with the double product
ExceedsProduct(v, max_val, ratio) ==
    \/ v * 1000 > max_val * ratio
    \/ v * 1000 = max_val * ratio /\ <<ratio, max_val>> \in ProductRoundsBelow

\* get_range(profile, threshold_ratio), the ratio in thousandths
get_range(profile, ratio) ==
    Let(ProfileMax(profile), LAMBDA max_val :
        IF max_val = 0 THEN <<0, 0>>
        ELSE Let({ k \in DOMAIN profile : ExceedsProduct(profile[k], max_val, ratio) },
                 LAMBDA indices :
                    IF indices # {} THEN <<SetMin(indices), SetMax(indices)>>
                    ELSE <<0, 0>>))

\* the band count divided by the number of rows of the profile
calculate_tail_ratio_of_rows(row_sum, h2) ==
    Let(ProfileMax(row_sum), LAMBDA mx :
        <<Cardinality({ k \in DOMAIN row_sum :
                          5 * row_sum[k] > mx /\ 100 * row_sum[k] <= 95 * mx }),
          Cardinality(DOMAIN row_sum)>>)

\* _calculate_tail_ratio(row_sum, h): rows whose profile / (max + 1e-6) lies
\* in (0.2, 0.95), divided by the rectangle's height h.  For whole counts
\* v / (max + 1e-6) > 0.2 is 5 v > max, and v / (max + 1e-6) < 0.95 is
\* 100 v <= 95 max.
TailRows(row_sum) ==
    Let(ProfileMax(row_sum), LAMBDA mx :
        { k \in DOMAIN row_sum : 5 * row_sum[k] > mx /\ 100 * row_sum[k] <= 95 * mx })

calculate_tail_ratio(row_sum, h2) ==
    Let(Cardinality(TailRows(row_sum)), LAMBDA n :
        IF n = 0 THEN <<0, 1>> ELSE <<2 * n, h2>>)

\* ------------------------------------------- projection profile refiner
\* a 90% range of zero length is kept as the estimate
HeuristicsNoFallback(row_sum, col_sum, n) ==
    Let(<<get_range(row_sum, 900), get_range(col_sum, 900),
          get_range(row_sum, 500), get_range(col_sum, 500)>>,
        LAMBDA g :
            LET h_est2 == 2 * (g[1][2] - g[1][1])
                w_est2 == 2 * (g[2][2] - g[2][1])
                h_wide == g[3][2] - g[3][1]
                w_wide == g[4][2] - g[4][1]
            IN  [h_est2 |-> h_est2, w_est2 |-> w_est2,
                 ar_est |-> <<w_est2, h_est2>>,
                 slope_h |-> IF h_est2 > 0 THEN <<2 * h_wide, h_est2>> ELSE <<1, 1>>,
                 slope_w |-> IF w_est2 > 0 THEN <<2 * w_wide, w_est2>> ELSE <<1, 1>>,
                 tail_ratio |-> calculate_tail_ratio(row_sum, n.h2)])

\* the slopes taken as the 90% length over the 50% length
HeuristicsSlopeOfNarrow(row_sum, col_sum, n) ==
    Let(<<get_range(row_sum, 900), get_range(col_sum, 900),
          get_range(row_sum, 500), get_range(col_sum, 500)>>,
        LAMBDA g :
            LET h_est2 == IF g[1][2] - g[1][1] = 0 THEN n.h2 ELSE 2 * (g[1][2] - g[1][1])
                w_est2 == IF g[2][2] - g[2][1] = 0 THEN n.w2 ELSE 2 * (g[2][2] - g[2][1])
                h_wide == g[3][2] - g[3][1]
                w_wide == g[4][2] - g[4][1]
            IN  [h_est2 |-> h_est2, w_est2 |-> w_est2,
                 ar_est |-> <<w_est2, h_est2>>,
                 slope_h |-> IF h_wide > 0 THEN <<h_est2, 2 * h_wide>> ELSE <<1, 1>>,
                 slope_w |-> IF w_wide > 0 THEN <<w_est2, 2 * w_wide>> ELSE <<1, 1>>,
                 tail_ratio |-> calculate_tail_ratio(row_sum, n.h2)])

\* dimensions.py:207-226: the 90% and 50% ranges and the indicators
\* ar_est, slope_h, slope_w; n is the normalized rectangle
Heuristics(row_sum, col_sum, n) ==
    Let(<<get_range(row_sum, 900), get_range(col_sum, 900),
          get_range(row_sum, 500), get_range(col_sum, 500)>>,
        LAMBDA g :
            LET y90 == g[1]
                x90 == g[2]
                y50 == g[3]
                x50 == g[4]
                h_est2 == IF y90[2] - y90[1] = 0 THEN n.h2 ELSE 2 * (y90[2] - y90[1])
                w_est2 == IF x90[2] - x90[1] = 0 THEN n.w2 ELSE 2 * (x90[2] - x90[1])
                h_wide == y50[2] - y50[1]
                w_wide == x50[2] - x50[1]
            IN  [h_est2 |-> h_est2, w_est2 |-> w_est2,
                 ar_est |-> <<w_est2, h_est2>>,
                 slope_h |-> IF h_est2 > 0 THEN <<2 * h_wide, h_est2>> ELSE <<1, 1>>,
                 slope_w |-> IF w_est2 > 0 THEN <<2 * w_wide, w_est2>> ELSE <<1, 1>>,
                 tail_ratio |-> calculate_tail_ratio(row_sum, n.h2)])

\* the small/square cut-off taken inclusive
SelectThresholdsInclusive(ar_est, slope_h, slope_w, tail_ratio) ==
    IF ~QGreater(ar_est, <<135, 100>>)
    THEN [thresh_h |-> 800, thresh_w |-> 800, pkg_type |-> "Small/Square"]
    ELSE IF QGreater(ar_est, <<27, 10>>) \/ QGreater(slope_h, <<122, 100>>)
    THEN IF QGreater(tail_ratio, <<25, 100>>)
         THEN [thresh_h |-> 875, thresh_w |-> 580, pkg_type |-> "DIP Heavy Tail"]
         ELSE [thresh_h |-> 959, thresh_w |-> 700, pkg_type |-> "DIP Fixed H"]
    ELSE IF QGreater(slope_w, <<110, 100>>)
    THEN [thresh_h |-> 920, thresh_w |-> 500, pkg_type |-> "SOIC Wide"]
    ELSE [thresh_h |-> 850, thresh_w |-> 800, pkg_type |-> "SOIC Standard"]

\* dimensions.py:232-301: the package family and its threshold pair
SelectThresholds(ar_est, slope_h, slope_w, tail_ratio) ==
    IF QLess(ar_est, <<135, 100>>)
    THEN [thresh_h |-> 800, thresh_w |-> 800, pkg_type |-> "Small/Square"]
    ELSE IF QGreater(ar_est, <<27, 10>>) \/ QGreater(slope_h, <<122, 100>>)
    THEN IF QGreater(tail_ratio, <<25, 100>>)
         THEN [thresh_h |-> 875, thresh_w |-> 580, pkg_type |-> "DIP Heavy Tail"]
         ELSE [thresh_h |-> 959, thresh_w |-> 700, pkg_type |-> "DIP Fixed H"]
    ELSE IF QGreater(slope_w, <<110, 100>>)
    THEN [thresh_h |-> 920, thresh_w |-> 500, pkg_type |-> "SOIC Wide"]
    ELSE [thresh_h |-> 850, thresh_w |-> 800, pkg_type |-> "SOIC Standard"]

\* the debug path falls back to the fixed pair
DebugTraceOverrides(dbg, chosen) ==
    IF dbg
    THEN [thresh_h |-> 850, thresh_w |-> 800, pkg_type |-> chosen.pkg_type]
    ELSE chosen

\* dimensions.py:228-230, 259-260, 303-305: the prints under debug_mode leave
\* the chosen pair as it is
DebugTrace(dbg, chosen) == chosen

NoHeuristics ==
    [h_est2 |-> 0, w_est2 |-> 0, ar_est |-> <<0, 1>>, slope_h |-> <<0, 1>>,
     slope_w |-> <<0, 1>>, tail_ratio |-> <<0, 1>>]

NoPair == [thresh_h |-> 0, thresh_w |-> 0, pkg_type |-> "none"]

\* the centre (cx, cy) of the rectangle displaced by the vector shift2 / 2
\* turned by rot degrees
Centre(shift2, rot) == [shift2 |-> shift2, rot |-> rot]

\* the unrefined rectangle with confidence factor 0.0 (dimensions.py:193, 313)
Unrefined(n, stage, heur, chosen, new_w, new_h) ==
    [w2 |-> n.w2, h2 |-> n.h2, centre |-> Centre(<<0, 0>>, 0),
     angle |-> n.angle, conf |-> 0, rect |-> n, stage |-> stage,
     heur |-> heur, chosen |-> chosen, new_w |-> new_w, new_h |-> new_h]

\* the floor taken exclusive: a side of exactly MIN_DIM fails
FinalDimensionsAboveFloor(n, roi, heur, chosen, ys, xs) ==
    LET new_h == ys[2] - ys[1]
        new_w == xs[2] - xs[1]
    IN  IF new_h <= MIN_DIM \/ new_w <= MIN_DIM
        THEN Unrefined(n, "floor", heur, chosen, new_w, new_h)
        ELSE [w2 |-> 2 * new_w, h2 |-> 2 * new_h,
              centre |-> Centre(<<xs[1] + xs[2] - 2 * (roi.w \div 2),
                                  ys[1] + ys[2] - 2 * (roi.h \div 2)>>, -n.angle),
              angle |-> n.angle, conf |-> 1, rect |-> n, stage |-> "refined",
              heur |-> heur, chosen |-> chosen, new_w |-> new_w, new_h |-> new_h]

\* dimensions.py:307-339 for the final bounds ys = (y_start, y_end) and
\* xs = (x_start, x_end)
FinalDimensions(n, roi, heur, chosen, ys, xs) ==
    LET new_h == ys[2] - ys[1]
        new_w == xs[2] - xs[1]
    IN  IF new_h < MIN_DIM \/ new_w < MIN_DIM
        THEN Unrefined(n, "floor", heur, chosen, new_w, new_h)
        ELSE [w2 |-> 2 * new_w, h2 |-> 2 * new_h,
              centre |-> Centre(<<xs[1] + xs[2] - 2 * (roi.w \div 2),
                                  ys[1] + ys[2] - 2 * (roi.h \div 2)>>, -n.angle),
              angle |-> n.angle, conf |-> 1, rect |-> n, stage |-> "refined",
              heur |-> heur, chosen |-> chosen, new_w |-> new_w, new_h |-> new_h]

\* dimensions.py:195-339: the profiles, the indicators, the pair and the
\* final bounds on the region roi
RefineOnRoi(i, dbg, n, roi) ==
    Let(<<RowSum(i, roi), ColSum(i, roi)>>, LAMBDA prof :
    Let(Heuristics(prof[1], prof[2], n), LAMBDA heur :
    Let(DebugTrace(dbg, SelectThresholds(heur.ar_est, heur.slope_h,
                                         heur.slope_w, heur.tail_ratio)),
        LAMBDA chosen :
    Let(<<get_range(prof[1], chosen.thresh_h), get_range(prof[2], chosen.thresh_w)>>,
        LAMBDA b : FinalDimensions(n, roi, heur, chosen, b[1], b[2])))))

\* _refine_dimensions_projection(img, contour, binary_mask) for the selected
\* contour of image i: (w, h, centre, angle, confidence factor), and what
\* the call went through
RefineDimensionsProjection(i, dbg) ==
    Let(Normalize(i.rw2, i.rh2, i.rangle), LAMBDA n :
    Let(GetRectSubPix(i, RoiDim(n.w2), RoiDim(n.h2)), LAMBDA roi :
        IF roi.none \/ roi.w * roi.h = 0
        THEN Unrefined(n, "roi", NoHeuristics, NoPair, 0, 0)
        ELSE RefineOnRoi(i, dbg, n, roi)))

\* the base confidence left out
ConfidenceUnscaled(conf_factor) == 10 * conf_factor

\* dimensions.py:354: confidence = 0.9 * conf_factor, in tenths
Confidence10(conf_factor) == 9 * conf_factor

CouldNotLoad == "ValueError: Could not load image"
DetectionFailed == "ValueError: Detection failed! Could not find IC body."

\* _method1_adaptive_threshold(img): None, or a DetectionResult
Method1AdaptiveThreshold(i, dbg) ==
    Let(FindIcBodyContour(i), LAMBDA ic_contour :
        IF ic_contour = 0
        THEN [found |-> FALSE]
        ELSE Let(RefineDimensionsProjection(i, dbg), LAMBDA r :
                [found |-> TRUE, width2 |-> r.w2, height2 |-> r.h2,
                 angle |-> r.angle, confidence10 |-> Confidence10(r.conf),
                 method_name |-> "Adaptive_Threshold",
                 contour |-> ic_contour, valid |-> ValidContours(i),
                 refine |-> r]))

NoCall == [kind |-> "nocall"]

\* the detector's result fused with a copy of itself
AnalyzeFused(i, dbg) ==
    IF Imread(i).kind = "null"
    THEN [kind |-> "raise", error |-> CouldNotLoad]
    ELSE Let(Method1AdaptiveThreshold(i, dbg), LAMBDA result1 :
            IF ~result1.found
            THEN [kind |-> "raise", error |-> DetectionFailed]
            ELSE [kind |-> "result",
                  width2 |-> result1.width2, height2 |-> result1.height2,
                  angle |-> result1.angle,
                  confidence10 |-> result1.confidence10,
                  methods_agreed |-> "2/2",
                  individual_results |-> <<result1, result1>>])

\* analyze(image_path)
Analyze(i, dbg) ==
    IF Imread(i).kind = "null"
    THEN [kind |-> "raise", error |-> CouldNotLoad]
    ELSE Let(Method1AdaptiveThreshold(i, dbg), LAMBDA result1 :
         Let(IF result1.found THEN <<result1>> ELSE <<>>, LAMBDA results :
            IF Len(results) = 0
            THEN [kind |-> "raise", error |-> DetectionFailed]
            ELSE [kind |-> "result",
                  width2 |-> results[1].width2, height2 |-> results[1].height2,
                  angle |-> results[1].angle,
                  confidence10 |-> results[1].confidence10,
                  methods_agreed |-> "1/1 (Robust Adaptive)",
                  individual_results |-> results]))

\* ---------------------------------------------------------- smart cropper
\* smart_crop.py:51
CropAreaRetained(a, imgArea) == 100 * a > imgArea /\ 10 * a < 9 * imgArea

CropValidContours(i) ==
    { k \in 1..Len(i.contours) : CropAreaRetained(i.contours[k], i.area) }

\* smart_crop.py:56: max(valid_contours, key=cv2.contourArea)
CropLargestValid(i) ==
    LET valid == CropValidContours(i)
        top == SetMax({ i.contours[k] : k \in valid })
    IN  SetMin({ k \in valid : i.contours[k] = top })

\* smart_crop.py:63-65
CropNormalize(rw2, rh2, rangle) ==
    IF rw2 < rh2
    THEN [w2 |-> rh2, h2 |-> rw2, angle |-> rangle + 90]
    ELSE [w2 |-> rw2, h2 |-> rh2, angle |-> rangle]

\* smart_crop.py:84-90
crop_get_range(profile, ratio) ==
    Let(ProfileMax(profile), LAMBDA max_val :
        IF max_val = 0 THEN <<0, 0>>
        ELSE Let({ k \in DOMAIN profile : ExceedsProduct(profile[k], max_val, ratio) },
                 LAMBDA indices :
                    IF indices # {} THEN <<SetMin(indices), SetMax(indices)>>
                    ELSE <<0, 0>>))

\* the small/square pair as the fixed pair
CropThresholdsSquare == [thresh_h |-> 800, thresh_w |-> 800]

\* smart_crop.py:94-95: the fixed pair
CropThresholds == [thresh_h |-> 850, thresh_w |-> 800]

\* one descriptor for every failure
CropErrorGeneric(msg, stage) ==
    [kind |-> "return", image |-> [none |-> TRUE],
     stats |-> [error |-> "Image processing failed"], stage |-> stage,
     contour |-> 0, valid |-> {}]

\* return None, {"error": msg}
CropError(msg, stage) ==
    [kind |-> "return", image |-> [none |-> TRUE],
     stats |-> [error |-> msg], stage |-> stage, contour |-> 0, valid |-> {}]

\* an exception of the library leaves process_image
CropRaise(msg, stage) == [kind |-> "raise", error |-> msg, stage |-> stage]

\* the patch cut with its sides exchanged
PatchTransposed(final_w, final_h, shift2) ==
    [none |-> FALSE, cols |-> final_h, rows |-> final_w, centre |-> Centre(shift2, 0)]

\* smart_crop.py:130-133: cv2.getRectSubPix(rotated_img, (int(final_w),
\* int(final_h)), (final_center_x, final_center_y)), the centre given as
\* twice its offset from the rectangle centre
Patch(final_w, final_h, shift2) ==
    [none |-> FALSE, cols |-> final_w, rows |-> final_h, centre |-> Centre(shift2, 0)]

\* smart_crop.py:81-141: the profiles, the final bounds and the crop on
\* the region roi
CropOnRoi(i, n, roi) ==
    Let(<<crop_get_range(RowSum(i, roi), CropThresholds.thresh_h),
          crop_get_range(ColSum(i, roi), CropThresholds.thresh_w)>>,
        LAMBDA b :
            LET ys == b[1]
                xs == b[2]
                final_h == ys[2] - ys[1]
                final_w == xs[2] - xs[1]
            IN  IF final_h < MIN_DIM \/ final_w < MIN_DIM
                THEN CropError("Calculated dimensions too small", "floor")
                ELSE [kind |-> "return",
                      image |-> Patch(final_w, final_h,
                                      <<xs[1] + xs[2] - 2 * (roi.w \div 2),
                                        ys[1] + ys[2] - 2 * (roi.h \div 2)>>),
                      stats |-> [width2 |-> 2 * final_w, height2 |-> 2 * final_h,
                                 angle |-> n.angle,
                                 original_width2 |-> n.w2,
                                 original_height2 |-> n.h2],
                      stage |-> "cropped", contour |-> CropLargestValid(i),
                      valid |-> CropValidContours(i)])

\* SmartCropper.process_image(img): (cropped image or None, stats)
ProcessImage(i) ==
    IF i.kind = "null" THEN CropError("Image is None", "input")
    ELSE IF i.kind = "empty"
    THEN CropRaise("cv2.error: (-215:Assertion failed) !_src.empty() in function 'cvtColor'",
                   "preprocess")
    ELSE IF Len(i.contours) = 0 THEN CropError("No contours found", "contours")
    ELSE IF CropValidContours(i) = {}
    THEN CropError("No valid IC contours found", "filter")
    ELSE Let(CropNormalize(i.rw2, i.rh2, i.rangle), LAMBDA n :
         Let(GetRectSubPix(i, RoiDim(n.w2), RoiDim(n.h2)), LAMBDA roi :
            IF roi.none THEN CropError("ROI extraction failed", "roi")
            ELSE CropOnRoi(i, n, roi)))

\* ------------------------------------------------------- service boundary
\* raise HTTPException(status_code, detail); core is the crop core's error
\* descriptor quoted in the detail, "" when there is none
HttpError(status, detail, core) ==
    [kind |-> "error", status |-> status, detail |-> detail, core |-> core]

\* CropService.process_scan_image(scan_id, original_image_path) when the
\* original file exists or not, holds image i, and cv2.imwrite succeeds or
\* not: (relative_cropped_path, stats), or an HTTPException, or another
\* exception
ProcessScanImage(exists, i, saveOk) ==
    IF ~exists THEN HttpError(404, "Original image not found at <path>", "")
    ELSE Let(Imread(i), LAMBDA loaded :
        IF loaded.kind = "null"
        THEN HttpError(500, "Failed to load image from <path>", "")
        ELSE Let(ProcessImage(loaded), LAMBDA o :
            IF o.kind = "raise" THEN [kind |-> "raise", error |-> o.error]
            ELSE IF o.image.none
            THEN HttpError(500, "Image processing failed: <error>", o.stats.error)
            ELSE IF ~saveOk
            THEN HttpError(500, "Failed to save cropped image to disk", "")
            ELSE [kind |-> "ok", path |-> "cropped/<file>", stats |-> o.stats]))

\* POST /scan/{scan_id}/process when the scan record is found or not, has
\* an original image path or not, and the repository update returns the
\* record or not
ProcessScanEndpoint(found, hasPath, exists, i, saveOk, updated) ==
    IF ~found THEN HttpError(404, "Scan with id <id> not found", "")
    ELSE IF ~hasPath
    THEN HttpError(400, "Scan does not have an original image path", "")
    ELSE Let(ProcessScanImage(exists, i, saveOk), LAMBDA r :
        IF r.kind = "error" THEN r
        ELSE IF r.kind = "raise"
        THEN HttpError(500, "Failed to process scan image: <exception>", "")
        ELSE IF ~updated THEN HttpError(500, "Failed to update scan document", "")
        ELSE [kind |-> "ok", status |-> 200,
              cropped_image_path |-> r.path,
              message |-> "Image processed successfully"])

\* ------------------------------------------------------ calls in stages
\* the callers of one shared analyzer and one shared cropper
Threads == { "t1", "t2" }

\* the stages of a call, in the order of the code
StageOrder == <<"input", "preprocess", "select", "orient", "roi", "refine">>
Stages == { StageOrder[k] : k \in 1..Len(StageOrder) }

NoRect == [w2 |-> 0, h2 |-> 0, angle |-> 0]
NoRoi == [none |-> TRUE, w |-> 0, h |-> 0]

\* no call in progress
Idle ==
    [op |-> "idle", pc |-> "idle", image |-> NullImage, trace |-> <<>>,
     sel |-> 0, n |-> NoRect, roi |-> NoRoi, out |-> NoCall]

\* the image a call works on through a buffer shared with the other calls
SharedImage(t) ==
    LET others == { u \in Threads \ { t } : task[u].op # "idle" }
    IN  IF others = {} THEN task[t].image
        ELSE task[CHOOSE u \in others : TRUE].image

\* the image a call works on: its own argument and the locals derived
\* from it
OwnImage(t) == task[t].image

\* a failed stage is entered again
AfterStageRetry(stage, ok) ==
    IF ~ok THEN stage
    ELSE IF stage = "refine" THEN "done"
    ELSE StageOrder[1 + CHOOSE k \in 1..Len(StageOrder) : StageOrder[k] = stage]

\* where a call goes after a stage: a return or raise ends it
AfterStage(stage, ok) ==
    IF ~ok \/ stage = "refine" THEN "done"
    ELSE StageOrder[1 + CHOOSE k \in 1..Len(StageOrder) : StageOrder[k] = stage]

\* dimensions.py:346-355 and 79-96: the DetectionResult of the refined
\* values r and the FinalResult built from it
StagedFinal(i, sel, r) ==
    LET d == [found |-> TRUE, width2 |-> r.w2, height2 |-> r.h2,
              angle |-> r.angle, confidence10 |-> Confidence10(r.conf),
              method_name |-> "Adaptive_Threshold",
              contour |-> sel, valid |-> ValidContours(i), refine |-> r]
    IN  [kind |-> "result", width2 |-> d.width2, height2 |-> d.height2,
         angle |-> d.angle, confidence10 |-> d.confidence10,
         methods_agreed |-> "1/1 (Robust Adaptive)",
         individual_results |-> <<d>>]

\* what a stage leaves behind: whether the call goes on, the locals, and
\* the outcome if the call ends here
StageResult(cur, ok, out) ==
    [ok |-> ok, sel |-> cur.sel, n |-> cur.n, roi |-> cur.roi, out |-> out]

\* one stage of analyze on the locals of thread t
AnalyzeStage(t, stage, dbg) ==
    Let(<<Imread(OwnImage(t)), task[t]>>, LAMBDA a :
        LET i == a[1]
            cur == a[2]
        IN  CASE stage = "input" ->
                   IF i.kind = "null"
                   THEN StageResult(cur, FALSE, [kind |-> "raise", error |-> CouldNotLoad])
                   ELSE StageResult(cur, TRUE, NoCall)
              [] stage = "preprocess" -> StageResult(cur, TRUE, NoCall)
              [] stage = "select" ->
                   Let(FindIcBodyContour(i), LAMBDA c :
                       IF c = 0
                       THEN StageResult(cur, FALSE,
                                        [kind |-> "raise", error |-> DetectionFailed])
                       ELSE [StageResult(cur, TRUE, NoCall) EXCEPT !.sel = c])
              [] stage = "orient" ->
                   [StageResult(cur, TRUE, NoCall)
                       EXCEPT !.n = Normalize(i.rw2, i.rh2, i.rangle)]
              [] stage = "roi" ->
                   Let(GetRectSubPix(i, RoiDim(cur.n.w2), RoiDim(cur.n.h2)), LAMBDA roi :
                       IF roi.none \/ roi.w * roi.h = 0
                       THEN StageResult(cur, FALSE,
                               StagedFinal(i, cur.sel,
                                   Unrefined(cur.n, "roi", NoHeuristics, NoPair, 0, 0)))
                       ELSE [StageResult(cur, TRUE, NoCall) EXCEPT !.roi = roi])
              [] OTHER ->
                   Let(RefineOnRoi(i, dbg, cur.n, cur.roi), LAMBDA r :
                       StageResult(cur, r.conf = 1, StagedFinal(i, cur.sel, r))))

\* one stage of process_image on the locals of thread t
CropStage(t, stage) ==
    Let(<<OwnImage(t), task[t]>>, LAMBDA a :
        LET i == a[1]
            cur == a[2]
        IN  CASE stage = "input" ->
                   IF i.kind = "null"
                   THEN StageResult(cur, FALSE, CropError("Image is None", "input"))
                   ELSE StageResult(cur, TRUE, NoCall)
              [] stage = "preprocess" ->
                   IF i.kind = "empty"
                   THEN StageResult(cur, FALSE, ProcessImage(EmptyImage))
                   ELSE StageResult(cur, TRUE, NoCall)
              [] stage = "select" ->
                   IF Len(i.contours) = 0
                   THEN StageResult(cur, FALSE, CropError("No contours found", "contours"))
                   ELSE IF CropValidContours(i) = {}
                   THEN StageResult(cur, FALSE,
                                    CropError("No valid IC contours found", "filter"))
                   ELSE [StageResult(cur, TRUE, NoCall) EXCEPT !.sel = CropLargestValid(i)]
              [] stage = "orient" ->
                   [StageResult(cur, TRUE, NoCall)
                       EXCEPT !.n = CropNormalize(i.rw2, i.rh2, i.rangle)]
              [] stage = "roi" ->
                   Let(GetRectSubPix(i, RoiDim(cur.n.w2), RoiDim(cur.n.h2)), LAMBDA roi :
                       IF roi.none
                       THEN StageResult(cur, FALSE,
                                        CropError("ROI extraction failed", "roi"))
                       ELSE [StageResult(cur, TRUE, NoCall) EXCEPT !.roi = roi])
              [] OTHER ->
                   Let(CropOnRoi(i, cur.n, cur.roi), LAMBDA o :
                       StageResult(cur, ~o.image.none, o)))

\* the images handed to the shared objects: one per way a call can end
StagedImages ==
    { NullImage, EmptyImage,
      ImageOf(ImageArea, <<>>, DefaultBlob, 0, FALSE, 10, FALSE),
      ImageOf(ImageArea, <<200>>, DefaultBlob, 0, FALSE, 10, FALSE),
      ImageOf(ImageArea, <<20000>>, DefaultBlob, 0, TRUE, 10, TRUE),
      ImageOf(ImageArea, <<20000>>, Blob(9, 9, 0, 0, 0, 0, 0, 0, 0, 0), 0, FALSE, 10, FALSE),
      ImageOf(ImageArea, <<20000>>, DefaultBlob, 0, TRUE, -45, FALSE),
      ImageOf(ImageArea, <<20000>>, Blob(14, 12, 0, 0, 0, 0, 0, 0, 0, 0), 1, FALSE, 10, FALSE) }

\* ------------------------------------------------- get_range on its own
\* longest profile handed to get_range on its own
MaxProfileLen == 3

\* foreground counts of a row or column
ProfileValues == { 0, 29, 50, 63, 90 }

Profiles == UNION { [0..(n - 1) -> ProfileValues] : n \in 1..MaxProfileLen }

\* threshold ratios in thousandths: 0.5, 0.58, 0.7, 0.8, 0.9 and 1
Ratios == { 500, 580, 700, 800, 900, 1000 }

\* the normalized rectangle handed over with the profile at hand: 4 x 3 px
ProbeRect == [w2 |-> 8, h2 |-> 6, angle |-> 0]

NoRange == <<>>
NoProbe ==
    [profile |-> <<>>, ratio |-> 0, range |-> NoRange, crop_range |-> NoRange,
     lower |-> 0, lower_range |-> NoRange, heur |-> NoHeuristics]

\* ----------------------------------------------------------- scan store
\* requests served side by side
MaxReqs == 3
\* half seconds the wall clock advances while they are served
MaxClock == 2

ReqIds == 1..MaxReqs

\* a scan document is known by the id of the request that created it; 0 is
\* a document written to the collection by other means
ScanIds == 0..MaxReqs

\* datetime.now().strftime("%Y%m%d_%H%M%S") at half second now: the second
Timestamp(now) == now \div 2

NoPath == [dir |-> "none", name |-> "none", ts |-> 0, ext |-> ""]

\* camera_service.py:80-84: original/capture_<timestamp>.jpg
CapturePath(now) ==
    [dir |-> "original", name |-> "capture", ts |-> Timestamp(now), ext |-> ".jpg"]

\* the extensions of uploaded file names, lower case
Exts == { ".jpg", ".png" }

\* camera_service.py:119-129: original/upload_<timestamp><ext>
UploadPath(now, ext) ==
    [dir |-> "original", name |-> "upload", ts |-> Timestamp(now), ext |-> ext]

\* crop_service.py:76-87: cropped/cropped_<timestamp>.jpg, the timestamp
\* taken from a capture_ file name and from the clock otherwise
CroppedPath(original, now) ==
    [dir |-> "cropped", name |-> "cropped",
     ts |-> IF original.name = "capture" THEN original.ts ELSE Timestamp(now),
     ext |-> ".jpg"]

NoScan == [exists |-> FALSE, original |-> NoPath, cropped |-> NoPath]

\* scan.py:68-98, 191-221: scan_data with the image paths
ScanDoc(original) == [exists |-> TRUE, original |-> original, cropped |-> NoPath]

\* a document of the collection without an original image path, and one
\* whose original file is not in the upload directory
LegacyDocs ==
    { NoScan, ScanDoc(NoPath),
      ScanDoc([dir |-> "original", name |-> "capture", ts |-> -1, ext |-> ".jpg"]) }

\* open(full_path, "wb").write(bytes) / cv2.imwrite(full_path, image): the
\* file at path holds image afterwards; whose scans it was written for is
\* remembered
WriteFile(disk, path, image, s) ==
    [p \in DOMAIN disk \cup { path } |->
        IF p = path
        THEN [image |-> image,
              for |-> (IF p \in DOMAIN disk THEN disk[p].for ELSE {}) \cup { s }]
        ELSE disk[p]]

NoDisk == [p \in {} |-> [image |-> NullImage, for |-> {}]]

\* no request on this slot
NoReq ==
    [kind |-> "none", pc |-> "none", image |-> NullImage, target |-> 0,
     original |-> NoPath, path |-> NoPath, response |-> NoCall]

\* the request has been answered: what remains of it is the scan it was
\* about and the answer
Answered(req, resp) ==
    [NoReq EXCEPT !.kind = req.kind, !.target = req.target, !.pc = "done",
                  !.response = resp]

\* the body of a 200 answer
Ok(message) == [kind |-> "ok", status |-> 200, message |-> message]

NoStore ==
    [clock |-> 0, scans |-> [s \in ScanIds |-> NoScan], disk |-> NoDisk,
     reqs |-> [r \in ReqIds |-> NoReq]]

\* the pictures that arrive: one that crops, one without a contour, one
\* that cannot be decoded
ScanImages ==
    { ImageOf(ImageArea, <<20000>>, DefaultBlob, 0, FALSE, 10, FALSE),
      ImageOf(ImageArea, <<>>, DefaultBlob, 0, FALSE, 10, FALSE),
      EmptyImage }

\* camera_service.py:32-67: capture_from_pi, the status it raises for what
\* the camera does, 200 when it returns the bytes
CaptureFromPi ==
    [pi \in { "ok", "status", "empty", "timeout", "connection", "request" } |->
        CASE pi = "ok" -> 200
          [] pi = "status" -> 502
          [] pi = "empty" -> 500
          [] pi = "timeout" -> 504
          [] pi = "connection" -> 503
          [] OTHER -> 502]

\* scan.py:168-185: the status raised for an upload that is not accepted
UploadCheck ==
    [u \in { "ok", "type", "size" } |->
        CASE u = "ok" -> 200
          [] u = "type" -> 400
          [] OTHER -> 413]

\* the path is written to the document whatever the crop gave
AfterCropAlways(out) == "update"

\* scan.py:306-317: the update follows only when process_scan_image returned
AfterCrop(out) == IF out.kind = "ok" THEN "update" ELSE "done"

\* the collection and the upload directory after POST /scan/{s}/process
\* has run from its first to its last line on store st; updated is FALSE
\* when the document is gone by the time of the update
ProcessScanStore(st, s, saveOk, updated) ==
    Let(st.scans[s], LAMBDA doc :
        IF ~doc.exists \/ doc.original = NoPath THEN st
        ELSE Let(<<doc.original \in DOMAIN st.disk,
                   IF doc.original \in DOMAIN st.disk
                   THEN st.disk[doc.original].image ELSE NullImage,
                   CroppedPath(doc.original, st.clock)>>,
                 LAMBDA f :
                    IF AfterCrop(ProcessScanImage(f[1], f[2], saveOk)) = "done" THEN st
                    ELSE [st EXCEPT
                            !.disk = WriteFile(@, f[3], f[2], s),
                            !.scans[s] = IF updated
                                         THEN [@ EXCEPT !.cropped = f[3]]
                                         ELSE NoScan]))

\* ------------------------------------------------------------ behaviour
\* the outcome of the last analyze call on img
AnalyzeOut == IF runs = <<>> THEN NoCall ELSE runs[Len(runs)].out

TypeOK ==
    /\ img \in Images
    /\ debug_mode \in BOOLEAN
    /\ Len(runs) <= MaxRuns
    /\ \A k \in 1..Len(runs) :
         runs[k].dbg \in BOOLEAN /\ runs[k].out.kind \in { "raise", "result" }
    /\ cropOut.kind \in { "nocall", "return", "raise" }
    /\ \A t \in Threads :
         /\ task[t].op \in { "idle", "analyze", "crop" }
         /\ task[t].pc \in { "idle", "done" } \cup Stages
         /\ task[t].image \in Images
    /\ response.kind \in { "nocall", "error", "ok" }
    /\ probe = NoProbe \/ (probe.profile \in Profiles /\ probe.ratio \in Ratios)
    /\ store.clock \in 0..MaxClock
    /\ \A s \in ScanIds : store.scans[s].exists \in BOOLEAN
    /\ \A r \in ReqIds :
         /\ store.reqs[r].kind \in { "none", "capture", "upload", "process" }
         /\ store.reqs[r].pc \in { "none", "create", "crop", "update", "done" }
         /\ store.reqs[r].target \in ScanIds

\* ICDimensionAnalyzer(debug_mode), SmartCropper(): one analyzer and one
\* cropper, an image at hand, nothing called yet
Init ==
    /\ img \in Images
    /\ debug_mode \in BOOLEAN
    /\ runs = <<>>
    /\ cropOut = NoCall
    /\ task = [t \in Threads |-> Idle]
    /\ response = NoCall
    /\ probe = NoProbe
    /\ store = NoStore

\* the caller is done with this image and turns to another one
LoadImage ==
    /\ Len(runs) = MaxRuns
    /\ cropOut # NoCall
    /\ \E i \in Images \ { img } : img' = i
    /\ runs' = <<>>
    /\ cropOut' = NoCall
    /\ UNCHANGED <<debug_mode, task, response, probe, store>>

\* the analyzer's debug_mode attribute is set the other way between calls
SetDebugMode ==
    /\ debug_mode' = ~debug_mode
    /\ UNCHANGED <<img, runs, cropOut, task, response, probe, store>>

\* analyzer.analyze(image)
DoAnalyze ==
    /\ Len(runs) < MaxRuns
    /\ runs' = Append(runs, [dbg |-> debug_mode, out |-> Analyze(img, debug_mode)])
    /\ UNCHANGED <<img, debug_mode, cropOut, task, response, probe, store>>

\* cropper.process_image(image)
DoCrop ==
    /\ cropOut' = ProcessImage(img)
    /\ UNCHANGED <<img, debug_mode, runs, task, response, probe, store>>

Next == LoadImage \/ SetDebugMode \/ DoAnalyze \/ DoCrop

Spec == Init /\ [][Next]_vars

\* one analyzer and one cropper shared by the threads, no call in progress
InitStaged ==
    /\ img = NullImage
    /\ debug_mode \in BOOLEAN
    /\ runs = <<>>
    /\ cropOut = NoCall
    /\ task = [t \in Threads |-> Idle]
    /\ response = NoCall
    /\ probe = NoProbe
    /\ store = NoStore

\* thread t calls analyze or process_image with an image of its own
Begin(t) ==
    /\ task[t].pc \in { "idle", "done" }
    /\ \E op \in { "analyze", "crop" }, i \in StagedImages :
          task' = [task EXCEPT ![t] = [Idle EXCEPT !.op = op, !.pc = "input",
                                                  !.image = i]]
    /\ UNCHANGED <<img, debug_mode, runs, cropOut, response, probe, store>>

\* the call of thread t runs its next stage
StepStage(t) ==
    /\ task[t].pc \in Stages
    /\ task' = [task EXCEPT ![t] =
          Let(IF task[t].op = "analyze"
              THEN AnalyzeStage(t, task[t].pc, debug_mode)
              ELSE CropStage(t, task[t].pc),
              LAMBDA res :
                 [task[t] EXCEPT !.pc = AfterStage(task[t].pc, res.ok),
                                 !.trace = Append(@, task[t].pc),
                                 !.sel = res.sel, !.n = res.n, !.roi = res.roi,
                                 !.out = res.out])]
    /\ UNCHANGED <<img, debug_mode, runs, cropOut, response, probe, store>>

NextStaged ==
    \/ \E t \in Threads : Begin(t)
    \/ \E t \in Threads : StepStage(t)
    \/ SetDebugMode

SpecStaged == InitStaged /\ [][NextStaged]_vars

\* a scan whose original file holds img, no request made yet
InitService ==
    /\ img \in Images
    /\ debug_mode = FALSE
    /\ runs = <<>>
    /\ cropOut = NoCall
    /\ task = [t \in Threads |-> Idle]
    /\ response = NoCall
    /\ probe = NoProbe
    /\ \E doc \in { NoScan, ScanDoc(NoPath), ScanDoc(CapturePath(0)) },
          onDisk \in BOOLEAN :
          store = [NoStore EXCEPT
                      !.scans[1] = doc,
                      !.disk = IF onDisk THEN WriteFile(@, CapturePath(0), img, 1)
                               ELSE @]

\* a client posts /scan/{scan_id}/process for scan 1
ProcessScan ==
    /\ \E saveOk \in BOOLEAN, updated \in BOOLEAN :
          /\ response' =
                ProcessScanEndpoint(store.scans[1].exists,
                                    store.scans[1].original # NoPath,
                                    store.scans[1].original \in DOMAIN store.disk,
                                    img, saveOk, updated)
          /\ store' = ProcessScanStore(store, 1, saveOk, updated)
    /\ UNCHANGED <<img, debug_mode, runs, cropOut, task, probe>>

NextService == ProcessScan

SpecService == InitService /\ [][NextService]_vars

\* a profile and a ratio at hand, get_range not called yet
InitRange ==
    /\ img = NullImage
    /\ debug_mode = FALSE
    /\ runs = <<>>
    /\ cropOut = NoCall
    /\ task = [t \in Threads |-> Idle]
    /\ response = NoCall
    /\ \E p \in Profiles, r \in Ratios, r1 \in Ratios :
          /\ r1 <= r
          /\ probe = [profile |-> p, ratio |-> r, range |-> NoRange,
                      crop_range |-> NoRange, lower |-> r1,
                      lower_range |-> NoRange, heur |-> NoHeuristics]
    /\ store = NoStore

\* the analyzer's get_range(profile, threshold_ratio)
ApplyGetRange ==
    /\ probe' = [probe EXCEPT !.range = get_range(probe.profile, probe.ratio)]
    /\ UNCHANGED <<img, debug_mode, runs, cropOut, task, response, store>>

\* the cropper's get_range(profile, threshold_ratio)
ApplyCropGetRange ==
    /\ probe' = [probe EXCEPT
                    !.crop_range = crop_get_range(probe.profile, probe.ratio)]
    /\ UNCHANGED <<img, debug_mode, runs, cropOut, task, response, store>>

\* get_range(profile, threshold_ratio) again, with the lower ratio
ApplyGetRangeLower ==
    /\ probe' = [probe EXCEPT !.lower_range = get_range(probe.profile, probe.lower)]
    /\ UNCHANGED <<img, debug_mode, runs, cropOut, task, response, store>>

\* the indicators of dimensions.py:207-226 with the profile at hand as row
\* and as column profile
ApplyHeuristics ==
    /\ probe' = [probe EXCEPT
                    !.heur = Heuristics(probe.profile, probe.profile, ProbeRect)]
    /\ UNCHANGED <<img, debug_mode, runs, cropOut, task, response, store>>

NextRange ==
    ApplyGetRange \/ ApplyCropGetRange \/ ApplyGetRangeLower \/ ApplyHeuristics

SpecRange == InitRange /\ [][NextRange]_vars

\* the collection as other programs left it, an empty upload directory, no
\* request yet
InitScans ==
    /\ img = NullImage
    /\ debug_mode = FALSE
    /\ runs = <<>>
    /\ cropOut = NoCall
    /\ task = [t \in Threads |-> Idle]
    /\ response = NoCall
    /\ probe = NoProbe
    /\ \E d \in LegacyDocs : store = [NoStore EXCEPT !.scans[0] = d]

\* request r arrives: the requests are numbered as they arrive
Arrives(r) ==
    /\ store.reqs[r].kind = "none"
    /\ \A q \in ReqIds : q < r => store.reqs[q].kind # "none"

\* POST /scan/capture up to its first await: camera.capture_and_save()
CaptureSave(r) ==
    /\ Arrives(r)
    /\ \E i \in ScanImages, pi \in DOMAIN CaptureFromPi, writeOk \in BOOLEAN :
          LET req == [NoReq EXCEPT !.kind = "capture"]
              path == CapturePath(store.clock)
          IN  store' =
                IF CaptureFromPi[pi] # 200
                THEN [store EXCEPT !.reqs[r] =
                        Answered(req, HttpError(CaptureFromPi[pi], "<camera failure>", ""))]
                ELSE IF ~writeOk
                THEN [store EXCEPT !.reqs[r] =
                        Answered(req, HttpError(500,
                            "Failed to capture and save scan: <exception>", ""))]
                ELSE [store EXCEPT
                        !.disk = WriteFile(@, path, i, r),
                        !.reqs[r] = [req EXCEPT !.pc = "create", !.original = path]]
    /\ UNCHANGED <<img, debug_mode, runs, cropOut, task, response, probe>>

\* POST /scan/capture from await repo.create(scan_data) to the answer
CaptureCreate(r) ==
    /\ store.reqs[r].kind = "capture"
    /\ store.reqs[r].pc = "create"
    /\ store' = [store EXCEPT
                    !.scans[r] = ScanDoc(store.reqs[r].original),
                    !.reqs[r] = Answered(@,
                        Ok("Image captured and scan created successfully"))]
    /\ UNCHANGED <<img, debug_mode, runs, cropOut, task, response, probe>>

\* POST /scan/upload up to await repo.create: the checks and
\* camera.save_uploaded_file(file_bytes, file.filename)
UploadSave(r) ==
    /\ Arrives(r)
    /\ \E i \in ScanImages, u \in DOMAIN UploadCheck, ext \in Exts,
          writeOk \in BOOLEAN :
          LET req == [NoReq EXCEPT !.kind = "upload"]
              path == UploadPath(store.clock, ext)
          IN  store' =
                IF UploadCheck[u] # 200
                THEN [store EXCEPT !.reqs[r] =
                        Answered(req, HttpError(UploadCheck[u], "<upload refused>", ""))]
                ELSE IF ~writeOk
                THEN [store EXCEPT !.reqs[r] =
                        Answered(req, HttpError(500,
                            "Failed to save uploaded image: <exception>", ""))]
                ELSE [store EXCEPT
                        !.disk = WriteFile(@, path, i, r),
                        !.reqs[r] = [req EXCEPT !.pc = "create", !.original = path]]
    /\ UNCHANGED <<img, debug_mode, runs, cropOut, task, response, probe>>

\* POST /scan/upload from await repo.create(scan_data) to the answer
UploadCreate(r) ==
    /\ store.reqs[r].kind = "upload"
    /\ store.reqs[r].pc = "create"
    /\ store' = [store EXCEPT
                    !.scans[r] = ScanDoc(store.reqs[r].original),
                    !.reqs[r] = Answered(@,
                        Ok("Image uploaded and scan created successfully"))]
    /\ UNCHANGED <<img, debug_mode, runs, cropOut, task, response, probe>>

\* POST /scan/{s}/process up to the answer of await repo.get_by_id(s)
ProcessGet(r) ==
    /\ Arrives(r)
    /\ \E s \in ScanIds :
          LET req == [NoReq EXCEPT !.kind = "process", !.target = s]
              doc == store.scans[s]
          IN  store' =
                IF ~doc.exists \/ doc.original = NoPath
                THEN [store EXCEPT !.reqs[r] =
                        Answered(req,
                            ProcessScanEndpoint(doc.exists, doc.original # NoPath,
                                                FALSE, NullImage, FALSE, FALSE))]
                ELSE [store EXCEPT !.reqs[r] =
                        [req EXCEPT !.pc = "crop", !.original = doc.original]]
    /\ UNCHANGED <<img, debug_mode, runs, cropOut, task, response, probe>>

\* POST /scan/{s}/process from crop_service.process_scan_image to await
\* repo.update
ProcessCrop(r) ==
    /\ store.reqs[r].kind = "process"
    /\ store.reqs[r].pc = "crop"
    /\ \E saveOk \in BOOLEAN :
          store' =
            Let(<<store.reqs[r],
                  store.reqs[r].original \in DOMAIN store.disk,
                  IF store.reqs[r].original \in DOMAIN store.disk
                  THEN store.disk[store.reqs[r].original].image ELSE NullImage,
                  CroppedPath(store.reqs[r].original, store.clock)>>,
                LAMBDA f :
                   Let(ProcessScanImage(f[2], f[3], saveOk), LAMBDA out :
                      IF AfterCrop(out) = "done"
                      THEN [store EXCEPT !.reqs[r] =
                              Answered(f[1],
                                  ProcessScanEndpoint(TRUE, TRUE, f[2], f[3], saveOk, TRUE))]
                      ELSE [store EXCEPT
                              !.disk = IF out.kind = "ok"
                                       THEN WriteFile(@, f[4], f[3], f[1].target)
                                       ELSE @,
                              !.reqs[r] = [f[1] EXCEPT !.pc = "update", !.path = f[4],
                                                       !.image = f[3]]]))
    /\ UNCHANGED <<img, debug_mode, runs, cropOut, task, response, probe>>

\* POST /scan/{s}/process from await repo.update(s, update_data) to the
\* answer
ProcessUpdate(r) ==
    /\ store.reqs[r].kind = "process"
    /\ store.reqs[r].pc = "update"
    /\ LET req == store.reqs[r]
           doc == store.scans[req.target]
       IN  store' = [store EXCEPT
                       !.scans[req.target] =
                           IF doc.exists THEN [doc EXCEPT !.cropped = req.path] ELSE doc,
                       !.reqs[r] = Answered(req,
                           ProcessScanEndpoint(TRUE, TRUE, TRUE, req.image, TRUE,
                                               doc.exists))]
    /\ UNCHANGED <<img, debug_mode, runs, cropOut, task, response, probe>>

\* half a second passes
Tick ==
    /\ store.clock < MaxClock
    /\ store' = [store EXCEPT !.clock = @ + 1]
    /\ UNCHANGED <<img, debug_mode, runs, cropOut, task, response, probe>>

NextScans ==
    \/ \E r \in ReqIds : CaptureSave(r)
    \/ \E r \in ReqIds : CaptureCreate(r)
    \/ \E r \in ReqIds : UploadSave(r)
    \/ \E r \in ReqIds : UploadCreate(r)
    \/ \E r \in ReqIds : ProcessGet(r)
    \/ \E r \in ReqIds : ProcessCrop(r)
    \/ \E r \in ReqIds : ProcessUpdate(r)
    \/ Tick

SpecScans == InitScans /\ [][NextScans]_vars

\* ------------------------------------------------------------ properties
\* the outcomes of the analyze calls made on img
Outcomes == { runs[k].out : k \in 1..Len(runs) }

Returned(o) == o.kind = "result"

\* the one DetectionResult behind a FinalResult
Detection(o) == o.individual_results[1]

CropCalled == cropOut.kind = "return"
Cropped == CropCalled /\ ~cropOut.image.none
CropFailed == CropCalled /\ cropOut.image.none

\* the contours of i whose area lies strictly between 1% and 90% of the
\* image area
StrictlyInside(i) ==
    { k \in 1..Len(i.contours) :
        i.area < 100 * i.contours[k] /\ 10 * i.contours[k] < 9 * i.area }

\* C1: when analyze returns a refined measurement and crop returns an image
\* for the same input, crop's width, height and angle equal analyze's.
C1_CropEqualsAnalyze ==
    \A o \in Outcomes :
        (Returned(o) /\ o.confidence10 = 9 /\ Cropped)
            => /\ cropOut.stats.width2 = o.width2
               /\ cropOut.stats.height2 = o.height2
               /\ cropOut.stats.angle = o.angle

\* C2: when a contour was selected and the refined height or width is below
\* 10 pixels, analyze returns no FinalResult.
C2_DegenerateIsError ==
    \A o \in Outcomes :
        ~(/\ Returned(o)
          /\ Detection(o).refine.stage = "floor"
          /\ (Detection(o).refine.new_h < 10 \/ Detection(o).refine.new_w < 10))

\* C3: a zero-confidence result is returned only after a contour was
\* selected and refinement degraded; with no retained contour analyze raises
\* the detection-failed error, which differs from every other error and
\* carries no geometry.
C3_ZeroConfidenceOnlyAfterSelection ==
    \A o \in Outcomes :
        /\ (Returned(o) /\ o.confidence10 = 0)
              => /\ StrictlyInside(img) # {}
                 /\ Detection(o).contour \in StrictlyInside(img)
                 /\ Detection(o).refine.stage \in { "roi", "floor" }
        /\ (img.kind = "raster" /\ StrictlyInside(img) = {})
              => /\ o.kind = "raise"
                 /\ o.error = DetectionFailed
                 /\ DOMAIN o = { "kind", "error" }
        /\ (o.kind = "raise" /\ img.kind = "null") => o.error # DetectionFailed

C3_Witness ==
    /\ img.kind = "raster"
    /\ Len(img.contours) > 0
    /\ AnalyzeOut.kind = "raise"
    /\ AnalyzeOut.error = DetectionFailed

\* C4: in analyze and in crop a contour is retained exactly when its area
\* lies strictly between 1% and 90% of the image area.
C4_AreaFilterStrict ==
    /\ \A o \in Outcomes :
          /\ Returned(o) => Detection(o).valid = StrictlyInside(img)
          /\ (img.kind = "raster" /\ o.kind = "raise") => StrictlyInside(img) = {}
    /\ Cropped => cropOut.valid = StrictlyInside(img)
    /\ (CropFailed /\ cropOut.stage \in { "contours", "filter" })
          => StrictlyInside(img) = {}
    /\ (CropFailed /\ cropOut.stage \in { "roi", "floor" })
          => StrictlyInside(img) # {}

C4_Witness ==
    /\ img.contours = <<400, 20000>>
    /\ Returned(AnalyzeOut)
    /\ Detection(AnalyzeOut).valid = { 2 }
    /\ Cropped
    /\ cropOut.valid = { 2 }

\* C5: the contour handed to the orientation stage is a retained contour of
\* largest area, and selection fails exactly when no contour is retained.
C5_LargestRetainedSelected ==
    /\ \A o \in Outcomes :
          /\ Returned(o)
                => /\ Detection(o).contour \in StrictlyInside(img)
                   /\ \A j \in StrictlyInside(img) :
                        img.contours[j] <= img.contours[Detection(o).contour]
          /\ img.kind = "raster"
                => ((o.kind = "raise") <=> (StrictlyInside(img) = {}))
    /\ Cropped
          => /\ cropOut.contour \in StrictlyInside(img)
             /\ \A j \in StrictlyInside(img) :
                  img.contours[j] <= img.contours[cropOut.contour]
    /\ (CropCalled /\ img.kind = "raster")
          => ((cropOut.stage \in { "contours", "filter" })
                 <=> (StrictlyInside(img) = {}))

C5_Witness ==
    /\ img.contours = <<20000, 30000>>
    /\ Returned(AnalyzeOut)
    /\ Detection(AnalyzeOut).contour = 2
    /\ Cropped
    /\ cropOut.contour = 2

\* the rectangle of image i with the long side first
Oriented(i) ==
    IF i.rw2 < i.rh2
    THEN [w2 |-> i.rh2, h2 |-> i.rw2, angle |-> i.rangle + 90]
    ELSE [w2 |-> i.rw2, h2 |-> i.rh2, angle |-> i.rangle]

\* C6: the normalized rectangle has width >= height; sides are swapped and
\* the angle raised by 90 exactly when the library's width is below its
\* height, and otherwise nothing changes.
C6_NormalizedRect ==
    /\ \A o \in Outcomes :
          Returned(o)
             => /\ Detection(o).refine.rect.w2 >= Detection(o).refine.rect.h2
                /\ Detection(o).refine.rect = Oriented(img)
                /\ o.angle = Oriented(img).angle
    /\ Cropped
          => /\ cropOut.stats.original_width2 >= cropOut.stats.original_height2
             /\ cropOut.stats.original_width2 = Oriented(img).w2
             /\ cropOut.stats.original_height2 = Oriented(img).h2
             /\ cropOut.stats.angle = Oriented(img).angle

C6_Witness ==
    /\ img.rw2 < img.rh2
    /\ Returned(AnalyzeOut)
    /\ AnalyzeOut.angle = img.rangle + 90
    /\ Cropped

\* threshold pair <<thresh_h, thresh_w>> the decision tree assigns
TreePair(ar, sh, sw, tr) ==
    IF ar[1] * 100 < 135 * ar[2] THEN <<800, 800>>
    ELSE IF ar[1] * 10 > 27 * ar[2] \/ sh[1] * 100 > 122 * sh[2]
    THEN IF tr[1] * 100 > 25 * tr[2] THEN <<875, 580>> ELSE <<959, 700>>
    ELSE IF sw[1] * 100 > 110 * sw[2] THEN <<920, 500>>
    ELSE <<850, 800>>

C9_Confidence ==
    \A o \in Outcomes :
        Returned(o)
           => /\ o.confidence10 \in { 0, 9 }
              /\ o.confidence10 = Detection(o).confidence10
              /\ (o.confidence10 = 9) <=> (Detection(o).refine.stage = "refined")
              /\ (o.confidence10 = 0)
                    <=> (Detection(o).refine.stage \in { "roi", "floor" })

C9_Witness ==
    /\ Returned(AnalyzeOut)
    /\ AnalyzeOut.confidence10 = 0
    /\ Detection(AnalyzeOut).refine.stage = "floor"

\* the failure mode a crop error descriptor stands for
CropFailureMode ==
    [e \in { "Image is None", "No contours found", "No valid IC contours found",
             "ROI extraction failed", "Calculated dimensions too small" } |->
        CASE e = "Image is None" -> "input"
          [] e = "No contours found" -> "contours"
          [] e = "No valid IC contours found" -> "filter"
          [] e = "ROI extraction failed" -> "roi"
          [] OTHER -> "floor"]

RoiFailed(i) == i.kind = "raster" /\ StrictlyInside(i) # {} /\ i.roiNone

\* C11: when the region extraction yields no region, analyze and crop both
\* report an error: analyze returns no geometry in its place and crop
\* returns no image.
C11_RoiFailureIsError ==
    /\ \A o \in Outcomes : RoiFailed(img) => o.kind = "raise"
    /\ (CropCalled /\ RoiFailed(img))
          => CropFailed /\ cropOut.stats.error = "ROI extraction failed"

\* the input is no raster: None, or a raster without pixels
InputInvalid(i) == i.kind \in { "null", "empty" }

\* C12: on a null or zero-sized input analyze and crop report the invalid
\* input at entry, before any stage runs: analyze by its load error, crop by
\* its error descriptor; no exception of a later stage reaches the caller.
C12_InvalidInputReportedAtEntry ==
    /\ \A o \in Outcomes :
          InputInvalid(img) => o.kind = "raise" /\ o.error = CouldNotLoad
    /\ (cropOut.kind # "nocall" /\ InputInvalid(img))
          => /\ cropOut.kind = "return"
             /\ cropOut.stage = "input"
             /\ cropOut.image.none

\* the calls that have returned or raised
Finished == { t \in Threads : task[t].pc = "done" }

\* what the call of thread t gives when it is the only call ever made on a
\* fresh object
AloneOutcome(t) ==
    IF task[t].op = "analyze" THEN Analyze(task[t].image, FALSE)
    ELSE ProcessImage(task[t].image)

\* C13: whatever calls ran before it or run beside it on the shared analyzer
\* and cropper, a finished call has the outcome the same call gives alone.
C13_NoStateBetweenCalls ==
    \A t \in Finished : task[t].out = AloneOutcome(t)

C13_Witness ==
    /\ task["t1"].pc = "done"
    /\ task["t1"].op = "analyze"
    /\ task["t1"].out.kind = "result"
    /\ task["t1"].out.confidence10 = 9
    /\ task["t2"].op = "crop"
    /\ task["t2"].pc = "refine"
    /\ task["t2"].image # task["t1"].image
    /\ debug_mode

\* the outcome tells the caller of a failure
Failed(op, out) ==
    IF op = "analyze" THEN out.kind = "raise" \/ out.confidence10 = 0
    ELSE out.kind = "raise" \/ out.image.none

\* the stages whose failure the outcome stands for, as far as the caller
\* can tell
ReportedStages(op, out) ==
    IF op = "analyze"
    THEN IF out.kind = "raise"
         THEN IF out.error = CouldNotLoad THEN { "input" } ELSE { "select" }
         ELSE { "roi", "refine" }
    ELSE IF out.kind = "raise" THEN { "preprocess" }
         ELSE CASE out.stats.error = "Image is None" -> { "input" }
                [] out.stats.error = "No contours found" -> { "select" }
                [] out.stats.error = "No valid IC contours found" -> { "select" }
                [] out.stats.error = "ROI extraction failed" -> { "roi" }
                [] OTHER -> { "refine" }

\* the first stage before the refinement that cannot succeed on image i
EarlyFailure(op, i) ==
    IF i.kind = "null" THEN "input"
    ELSE IF i.kind = "empty"
    THEN IF op = "analyze" THEN "input" ELSE "preprocess"
    ELSE IF StrictlyInside(i) = {} THEN "select"
    ELSE IF i.roiNone THEN "roi"
    ELSE "none"

\* C14: a call runs its stages in the order input, preprocess, select,
\* orient, roi, refine, each at most once; it ends with the first stage
\* that fails, the outcome stands for that stage, and nothing runs after it.
C14_StagesOnceInOrder ==
    \A t \in Threads :
        LET c == task[t]
            last == c.trace[Len(c.trace)]
        IN  /\ Len(c.trace) <= Len(StageOrder)
            /\ \A k \in 1..Len(c.trace) : c.trace[k] = StageOrder[k]
            /\ c.pc \in Stages => c.pc = StageOrder[Len(c.trace) + 1]
            /\ \A k \in 1..Len(c.trace) :
                  EarlyFailure(c.op, c.image) = c.trace[k] => k = Len(c.trace)
            /\ c.pc = "done"
                  => IF EarlyFailure(c.op, c.image) # "none"
                     THEN /\ last = EarlyFailure(c.op, c.image)
                          /\ Failed(c.op, c.out)
                          /\ last \in ReportedStages(c.op, c.out)
                     ELSE /\ last = "refine"
                          /\ Failed(c.op, c.out)
                                => last \in ReportedStages(c.op, c.out)

C14_Witness ==
    /\ task["t1"].pc = "done"
    /\ task["t1"].op = "crop"
    /\ task["t1"].trace = <<"input", "preprocess", "select">>
    /\ task["t1"].out.stats.error = "No valid IC contours found"
    /\ task["t2"].pc = "done"
    /\ task["t2"].op = "analyze"
    /\ task["t2"].trace = <<"input", "preprocess", "select">>
    /\ task["t2"].out.kind = "raise"

\* the error descriptors of the crop core's four failure modes
CoreFailures ==
    { "No contours found", "No valid IC contours found",
      "ROI extraction failed", "Calculated dimensions too small" }

\* C15: a failure of the crop core while a scan is processed is answered
\* with status 404 (not found) or 422 (unprocessable).
C15_CoreFailureIsNotFoundOrUnprocessable ==
    (response.kind = "error" /\ response.core \in CoreFailures)
        => response.status \in { 404, 422 }

\* C16: a FinalResult passes the single detector's DetectionResult through:
\* individual_results holds exactly that one result, width, height, angle
\* and confidence are its fields, and the agreement descriptor says 1/1.
C16_FusionPassThrough ==
    \A k \in 1..Len(runs) :
        LET o == runs[k].out
        IN  Returned(o)
               => /\ Len(o.individual_results) = 1
                  /\ o.individual_results[1].method_name = "Adaptive_Threshold"
                  /\ o.width2 = o.individual_results[1].width2
                  /\ o.height2 = o.individual_results[1].height2
                  /\ o.angle = o.individual_results[1].angle
                  /\ o.confidence10 = o.individual_results[1].confidence10
                  /\ o.methods_agreed = "1/1 (Robust Adaptive)"

C16_Witness ==
    /\ Returned(AnalyzeOut)
    /\ AnalyzeOut.confidence10 = 9
    /\ AnalyzeOut.width2 > AnalyzeOut.height2
    /\ Detection(AnalyzeOut).refine.chosen.pkg_type = "SOIC Wide"

\* the region of interest process_image cuts out of the straightened mask
\* of image i
CropRoi(i) ==
    [w |-> (Oriented(i).w2 + 200) \div 2, h |-> (Oriented(i).h2 + 200) \div 2]

\* the indices of a profile whose value exceeds ratio thousandths of the
\* profile's maximum
Above(profile, ratio) ==
    Let(CHOOSE k \in DOMAIN profile : \A j \in DOMAIN profile : profile[j] <= profile[k],
        LAMBDA top :
            { k \in DOMAIN profile : profile[k] * 1000 > profile[top] * ratio })

\* C17: a successful crop returns a raster of stats.width columns and
\* stats.height rows, cut at the rectangle centre moved by the offset of
\* the refined region's centre from the region of interest's centre; the
\* stats hold width, height, angle, original_width and original_height,
\* the last two being the normalized rectangle's sides, long side first.
C17_CropRasterAndStats ==
    Cropped
       => Let(<<Above(RowSum(img, CropRoi(img)), 850),
                Above(ColSum(img, CropRoi(img)), 800)>>,
              LAMBDA a :
                 /\ 2 * cropOut.image.cols = cropOut.stats.width2
                 /\ 2 * cropOut.image.rows = cropOut.stats.height2
                 /\ cropOut.image.cols = SetMax(a[2]) - SetMin(a[2])
                 /\ cropOut.image.rows = SetMax(a[1]) - SetMin(a[1])
                 /\ cropOut.image.centre.rot = 0
                 /\ cropOut.image.centre.shift2 =
                       <<SetMin(a[2]) + SetMax(a[2]) - 2 * (CropRoi(img).w \div 2),
                         SetMin(a[1]) + SetMax(a[1]) - 2 * (CropRoi(img).h \div 2)>>
                 /\ DOMAIN cropOut.stats = { "width2", "height2", "angle",
                                             "original_width2", "original_height2" }
                 /\ cropOut.stats.angle = Oriented(img).angle
                 /\ cropOut.stats.original_width2 = Oriented(img).w2
                 /\ cropOut.stats.original_height2 = Oriented(img).h2
                 /\ cropOut.stats.original_width2 >= cropOut.stats.original_height2)

C17_Witness ==
    /\ Cropped
    /\ cropOut.image.cols # cropOut.image.rows
    /\ cropOut.image.centre.shift2[1] # 0
    /\ cropOut.image.centre.shift2[2] # 0
    /\ cropOut.stats.original_width2 > cropOut.stats.width2
    /\ img.rw2 < img.rh2

Abs(x) == IF x < 0 THEN -x ELSE x

\* C18: for the 800x600 image of a dark 300x100 rectangle drawn at 0, 10,
\* 15, 45 or 89 degrees, analyze returns width and height within 2 percent
\* and the angle within 1 degree of the drawn ones; at 10 degrees the width
\* is 300 +/- 6, the height 100 +/- 2 and the confidence above 0.8.
C18_RoundTrip ==
    \A o \in Outcomes : \A theta \in SynthAngles : \A lib \in AngleRanges :
        img = SyntheticImage(theta, lib)
           => /\ Returned(o)
              /\ 100 * Abs(o.width2 - 2 * SynthW) <= 2 * (2 * SynthW)
              /\ 100 * Abs(o.height2 - 2 * SynthH) <= 2 * (2 * SynthH)
              /\ Abs(o.angle - theta) <= 1
              /\ theta = 10
                    => /\ Abs(o.width2 - 2 * SynthW) <= 2 * 6
                       /\ Abs(o.height2 - 2 * SynthH) <= 2 * 2
                       /\ o.confidence10 > 8

\* the ranges get_range has returned for the profile at hand
Ranges == { probe.range, probe.crop_range } \ { NoRange }

\* the largest value of the profile at hand
ProbeMax ==
    CHOOSE v \in { probe.profile[k] : k \in DOMAIN probe.profile } :
        \A k \in DOMAIN probe.profile : probe.profile[k] <= v

\* the indices whose value is above ratio * max in exact arithmetic
ExactlyAbove ==
    { k \in DOMAIN probe.profile :
        probe.profile[k] * 1000 > ProbeMax * probe.ratio }

\* the indices whose value is above the double product max * ratio
FloatAbove ==
    { k \in DOMAIN probe.profile :
        \/ probe.profile[k] * 1000 > ProbeMax * probe.ratio
        \/ /\ probe.profile[k] * 1000 = ProbeMax * probe.ratio
           /\ <<probe.ratio, ProbeMax>> \in ProductRoundsBelow }

\* the first and last element of a set of indices, (0, 0) when it is empty
Span(S) ==
    IF S = {} THEN <<0, 0>>
    ELSE <<CHOOSE a \in S : \A b \in S : a <= b, CHOOSE a \in S : \A b \in S : b <= a>>

\* C19 as stated: get_range returns the first and last index whose value is
\* strictly greater than r * max(profile), and (0, 0) when the maximum is 0
\* or no index qualifies, as always for r = 1; analyze and crop use the
\* same definition.
C19_GetRangeExact ==
    /\ \A res \in Ranges :
          /\ res = (IF ProbeMax = 0 THEN <<0, 0>> ELSE Span(ExactlyAbove))
          /\ probe.ratio = 1000 => res = <<0, 0>>
    /\ Cardinality(Ranges) <= 1

\* C19, amended: get_range returns the first and last index whose value is
\* strictly greater than the double product max(profile) * r, which is
\* below the exact product for some ratios and maxima (0.58 * 50, 0.7 * 90),
\* so that a value equal to the exact product then qualifies; (0, 0) when
\* the maximum is 0 or no index qualifies, as always for r = 1; analyze and
\* crop use the same definition.
C19_GetRangeFloat ==
    /\ \A res \in Ranges :
          /\ res = (IF ProbeMax = 0 THEN <<0, 0>> ELSE Span(FloatAbove))
          /\ probe.ratio = 1000 => res = <<0, 0>>
    /\ Cardinality(Ranges) <= 1

C19_Witness ==
    /\ probe.range # NoRange
    /\ probe.crop_range # NoRange
    /\ probe.ratio = 580
    /\ ProbeMax = 50
    /\ probe.profile[probe.range[1]] = 29
    /\ probe.range[1] < probe.range[2]

\* the refiner's results for img that reached the size floor
FloorChecked ==
    { r \in { Detection(o).refine : o \in { x \in Outcomes : Returned(x) } } :
        r.stage \in { "floor", "refined" } }

\* C20: the refinement succeeds exactly when y_end - y_start >= 10 and
\* x_end - x_start >= 10; a failed refinement returns the normalized
\* rectangle's width, height, centre and angle with flag 0, a successful
\* one the refined width and height with the rectangle's angle; crop
\* applies the same floor.
C20_SizeFloor ==
    /\ \A r \in FloorChecked :
          /\ r.conf = 1 <=> (r.new_h >= 10 /\ r.new_w >= 10)
          /\ r.conf \in { 0, 1 }
          /\ r.rect = Oriented(img)
          /\ r.angle = r.rect.angle
          /\ r.conf = 0
                => /\ r.w2 = r.rect.w2
                   /\ r.h2 = r.rect.h2
                   /\ r.centre = Centre(<<0, 0>>, 0)
          /\ r.conf = 1 => (r.w2 = 2 * r.new_w /\ r.h2 = 2 * r.new_h)
    /\ (Cropped \/ (CropFailed /\ cropOut.stage = "floor"))
          => Let(<<Above(RowSum(img, CropRoi(img)), 850),
                   Above(ColSum(img, CropRoi(img)), 800)>>,
                 LAMBDA a :
                    Cropped <=> /\ SetMax(a[1]) - SetMin(a[1]) >= 10
                                /\ SetMax(a[2]) - SetMin(a[2]) >= 10)

C20_Witness ==
    /\ Returned(AnalyzeOut)
    /\ Detection(AnalyzeOut).refine.new_h = 10
    /\ Detection(AnalyzeOut).refine.new_w > 10
    /\ Detection(AnalyzeOut).refine.conf = 1
    /\ AnalyzeOut.height2 = 20
    /\ Cropped
    /\ cropOut.image.rows = 10

\* the refiner's results for img that went through the DIP-like branch,
\* where _calculate_tail_ratio is called
DipChecked ==
    { r \in FloorChecked : r.chosen.pkg_type \in { "DIP Heavy Tail", "DIP Fixed H" } }

\* the row profile of the region of interest of img
RowProfile == RowSum(img, CropRoi(img))

\* the largest foreground count among the rows of img's region
RowProfileMax ==
    Let(RowProfile, LAMBDA p :
        p[CHOOSE k \in DOMAIN p : \A j \in DOMAIN p : p[j] <= p[k]])

\* the rows whose count lies strictly between 0.2 and 0.95 of the maximum
StrictBandRows ==
    Let(<<RowProfile, RowProfileMax>>, LAMBDA a :
        { k \in DOMAIN a[1] : 5 * a[1][k] > a[2] /\ 100 * a[1][k] < 95 * a[2] })

\* the rows whose count v has 0.2 < v / (max + 0.000001) < 0.95: for whole
\* counts, max < 5 v and 100 v <= 95 max
NormBandRows ==
    Let(<<RowProfile, RowProfileMax>>, LAMBDA a :
        { k \in DOMAIN a[1] : 5 * a[1][k] > a[2] /\ 100 * a[1][k] <= 95 * a[2] })

\* C21 as stated: tail_ratio is the number of rows whose count lies strictly
\* between 0.2 and 0.95 of the row maximum divided by the number of rows of
\* the profile, hence between 0 and 1, and 0 when no row is in the band.
C21_TailRatioOfProfileRows ==
    \A r \in DipChecked :
        /\ r.heur.tail_ratio[1] * Cardinality(DOMAIN RowProfile)
              = Cardinality(StrictBandRows) * r.heur.tail_ratio[2]
        /\ 0 <= r.heur.tail_ratio[1]
        /\ r.heur.tail_ratio[1] <= r.heur.tail_ratio[2]
        /\ StrictBandRows = {} => r.heur.tail_ratio[1] = 0

\* C21, amended: tail_ratio is the number of rows whose count divided by
\* (maximum + 0.000001) lies strictly between 0.2 and 0.95, a count of
\* exactly 0.95 of the maximum included, divided by the normalized
\* rectangle's height; it is 0 when no row is in the band, never negative,
\* and above 1 when more rows are in the band than the rectangle is high.
C21_TailRatioOfRectHeight ==
    \A r \in DipChecked :
        /\ r.heur.tail_ratio[2] > 0
        /\ r.heur.tail_ratio[1] * r.rect.h2
              = 2 * Cardinality(NormBandRows) * r.heur.tail_ratio[2]
        /\ 0 <= r.heur.tail_ratio[1]
        /\ NormBandRows = {} => r.heur.tail_ratio[1] = 0
        /\ (r.heur.tail_ratio[1] > r.heur.tail_ratio[2])
              <=> (2 * Cardinality(NormBandRows) > r.rect.h2)
        /\ (r.chosen.pkg_type = "DIP Heavy Tail")
              <=> (8 * Cardinality(NormBandRows) > r.rect.h2)

C21_Witness ==
    /\ Returned(AnalyzeOut)
    /\ Detection(AnalyzeOut).refine \in DipChecked
    /\ Detection(AnalyzeOut).refine.heur.tail_ratio[1]
          > Detection(AnalyzeOut).refine.heur.tail_ratio[2]
    /\ Cardinality(NormBandRows) = 16
    /\ img.nb # NoNeighbour

\* the refiner's results for img that passed the size floor
Refined == { r \in FloorChecked : r.stage = "refined" }

\* the indices of a profile that get_range counts as above ratio thousandths
\* of the profile's maximum
AboveProduct(profile, ratio) ==
    Let(CHOOSE k \in DOMAIN profile : \A j \in DOMAIN profile : profile[j] <= profile[k],
        LAMBDA top :
            { k \in DOMAIN profile : ExceedsProduct(profile[k], profile[top], ratio) })

\* first index + last index of a non-empty set of indices: twice the centre
\* of the span
SpanSum(S) == SetMin(S) + SetMax(S)

\* the rows and the columns of img's region above the thresholds of result r
RefinedRows(r) == AboveProduct(RowSum(img, CropRoi(img)), r.chosen.thresh_h)
RefinedCols(r) == AboveProduct(ColSum(img, CropRoi(img)), r.chosen.thresh_w)

\* C22: the corrected centre is the rectangle centre plus the offset of the
\* refined region's centre from the region of interest's geometric centre
\* (index (size - 1) / 2 of a region of size pixels), turned by -angle; when
\* the rows and columns above threshold lie symmetrically about that centre,
\* the corrected centre is the rectangle centre, for even and odd sizes.
C22_CentreCorrection ==
    \A r \in Refined :
        Let(<<SpanSum(RefinedCols(r)), SpanSum(RefinedRows(r)), CropRoi(img)>>,
            LAMBDA a :
                /\ r.centre.rot = -r.angle
                /\ r.centre.shift2 = <<a[1] - (a[3].w - 1), a[2] - (a[3].h - 1)>>
                /\ (a[1] = a[3].w - 1 /\ a[2] = a[3].h - 1)
                      => r.centre.shift2 = <<0, 0>>)

\* last index - first index of the indices of a profile above ratio
\* thousandths of its maximum, 0 when there is none
RangeLength(profile, ratio) ==
    Let(AboveProduct(profile, ratio), LAMBDA S :
        IF S = {} THEN 0 ELSE SetMax(S) - SetMin(S))

\* C23: ar_est is the length of the 90% range of the column profile divided
\* by that of the row profile, a length of zero being replaced by the
\* normalized rectangle's width (height); the divisor is above 0 whenever the
\* rectangle's height is, so ar_est is always defined.
C23_AspectEstimate ==
    \A r \in FloorChecked :
        Let(<<RangeLength(ColSum(img, CropRoi(img)), 900),
              RangeLength(RowSum(img, CropRoi(img)), 900)>>,
            LAMBDA len :
                /\ r.heur.w_est2 = (IF len[1] = 0 THEN r.rect.w2 ELSE 2 * len[1])
                /\ r.heur.h_est2 = (IF len[2] = 0 THEN r.rect.h2 ELSE 2 * len[2])
                /\ r.heur.ar_est = <<r.heur.w_est2, r.heur.h_est2>>
                /\ r.rect.h2 > 0 => r.heur.ar_est[2] > 0)

C23_Witness ==
    /\ Returned(AnalyzeOut)
    /\ Detection(AnalyzeOut).refine \in FloorChecked
    /\ RangeLength(RowSum(img, CropRoi(img)), 900) = 0
    /\ RangeLength(ColSum(img, CropRoi(img)), 900) > 0
    /\ Detection(AnalyzeOut).refine.heur.h_est2 = img.rh2
    /\ img.rh2 > 0

\* the indices at which the profile at hand has its maximum
ProbeTops == { k \in DOMAIN probe.profile : probe.profile[k] = ProbeMax }

\* C24: for a profile with positive maximum and ratios r1 <= r2 < 1 the
\* range at r1 contains the range at r2 and both contain every index of the
\* maximum; slope_h and slope_w are at least 1 whenever the 90% range has a
\* length above 0, and a slope below 1 arises only when the 90% length was
\* replaced by the rectangle's side.
C24_NestedRanges ==
    /\ (ProbeMax > 0 /\ probe.ratio < 1000)
          => /\ \A res \in { probe.range, probe.lower_range } \ { NoRange } :
                   \A k \in ProbeTops : res[1] <= k /\ k <= res[2]
             /\ (probe.range # NoRange /\ probe.lower_range # NoRange)
                   => /\ probe.lower_range[1] <= probe.range[1]
                      /\ probe.range[2] <= probe.lower_range[2]
    /\ probe.heur # NoHeuristics
          => Let(RangeLength(probe.profile, 900), LAMBDA len90 :
                /\ len90 > 0
                      => /\ probe.heur.slope_h[1] >= probe.heur.slope_h[2]
                         /\ probe.heur.slope_w[1] >= probe.heur.slope_w[2]
                /\ probe.heur.slope_h[1] < probe.heur.slope_h[2]
                      => len90 = 0 /\ probe.heur.h_est2 = ProbeRect.h2
                /\ probe.heur.slope_w[1] < probe.heur.slope_w[2]
                      => len90 = 0 /\ probe.heur.w_est2 = ProbeRect.w2)

C24_Witness ==
    /\ probe.range # NoRange
    /\ probe.lower_range # NoRange
    /\ probe.lower < probe.ratio
    /\ probe.ratio = 900
    /\ probe.range[1] < probe.range[2]
    /\ probe.lower_range[2] > probe.range[2]
    /\ probe.heur # NoHeuristics
    /\ probe.heur.slope_h[1] > probe.heur.slope_h[2]

\* C25: every result of analyze and every stats record of a successful crop
\* has width >= height: the width is the longer side after the refinement
\* as well.
C25_WidthIsLongerSide ==
    /\ \A o \in Outcomes : Returned(o) => o.width2 >= o.height2
    /\ Cropped => cropOut.stats.width2 >= cropOut.stats.height2

\* C26: the refined bounds lie inside the region of interest, whose sides
\* are floor(w + 100) and floor(h + 100): 0 <= start <= end <= side - 1; the
\* refined width and height are end - start, so never negative and never
\* above the normalized rectangle's side plus 2 * pad, although they can be
\* above the rectangle's side itself.
C26_BoundsInsideRoi ==
    /\ \A r \in FloorChecked :
          Let(<<Span(RefinedCols(r)), Span(RefinedRows(r)), CropRoi(img)>>,
              LAMBDA a :
                 LET xs == a[1]
                     ys == a[2]
                     roi == a[3]
                 IN  /\ 2 * roi.w <= r.rect.w2 + 4 * pad
                     /\ r.rect.w2 + 4 * pad < 2 * roi.w + 2
                     /\ 2 * roi.h <= r.rect.h2 + 4 * pad
                     /\ r.rect.h2 + 4 * pad < 2 * roi.h + 2
                     /\ 0 <= xs[1] /\ xs[1] <= xs[2] /\ xs[2] <= roi.w - 1
                     /\ 0 <= ys[1] /\ ys[1] <= ys[2] /\ ys[2] <= roi.h - 1
                     /\ r.new_w = xs[2] - xs[1]
                     /\ r.new_h = ys[2] - ys[1]
                     /\ 0 <= r.new_w /\ 2 * r.new_w <= r.rect.w2 + 4 * pad
                     /\ 0 <= r.new_h /\ 2 * r.new_h <= r.rect.h2 + 4 * pad
                     /\ r.stage = "refined"
                           => /\ r.w2 = 2 * r.new_w
                              /\ r.h2 = 2 * r.new_h
                              /\ r.centre.shift2 =
                                    <<xs[1] + xs[2] - 2 * (roi.w \div 2),
                                      ys[1] + ys[2] - 2 * (roi.h \div 2)>>)
    /\ Cropped
          => /\ 0 <= cropOut.stats.width2
             /\ cropOut.stats.width2 <= cropOut.stats.original_width2 + 4 * pad
             /\ 0 <= cropOut.stats.height2
             /\ cropOut.stats.height2 <= cropOut.stats.original_height2 + 4 * pad

C26_Witness ==
    /\ Returned(AnalyzeOut)
    /\ Detection(AnalyzeOut).refine.stage = "refined"
    /\ Detection(AnalyzeOut).refine.w2 > Detection(AnalyzeOut).refine.rect.w2
    /\ Cropped
    /\ cropOut.stats.width2 > cropOut.stats.original_width2
    /\ cropOut.stats.height2 <= cropOut.stats.original_height2

\* crop selected a contour on img
CropSelected == CropCalled /\ cropOut.stage \in { "roi", "floor", "cropped" }

\* C27: when analyze and crop both select a contour, a successful crop
\* reports the angle and the normalized rectangle analyze starts from; when
\* analyze's decision tree selects the SOIC standard pair (0.85, 0.80), crop
\* succeeds exactly when analyze's refinement does and reports the same
\* refined width and height.
C27_CropAgreesWithAnalyze ==
    \A o \in Outcomes :
        (Returned(o) /\ CropSelected)
           => /\ Cropped
                    => /\ cropOut.stats.angle = o.angle
                       /\ cropOut.stats.original_width2 = Detection(o).refine.rect.w2
                       /\ cropOut.stats.original_height2 = Detection(o).refine.rect.h2
              /\ Detection(o).refine.chosen.pkg_type = "SOIC Standard"
                    => /\ Cropped <=> o.confidence10 = 9
                       /\ Cropped
                             => /\ cropOut.stats.width2 = o.width2
                                /\ cropOut.stats.height2 = o.height2

C27_Witness ==
    /\ Returned(AnalyzeOut)
    /\ Detection(AnalyzeOut).refine.chosen.pkg_type = "SOIC Standard"
    /\ AnalyzeOut.confidence10 = 9
    /\ Cropped
    /\ cropOut.stats.width2 = AnalyzeOut.width2
    /\ cropOut.stats.width2 < cropOut.stats.original_width2
    /\ img.blob.pl > 0

\* crop_service.py:56-97: the file read back from disk decodes, the crop
\* core returns a crop, and the crop is written
CropSucceeds(i) == ProcessScanImage(TRUE, i, TRUE).kind = "ok"

\* request r gives its answer in this step
Answers(r) == store.reqs[r].pc # "done" /\ store'.reqs[r].pc = "done"

\* C28: in the process operation the scan record's cropped_image_path is
\* written only by the update that follows a successful crop whose file was
\* saved to disk; when the scan does not exist (404) or has no original
\* image path (400), when the original file is missing (404) or unreadable,
\* the crop core reports an error or saving fails (500), the request ends
\* with that error and no scan record changes in the step.
C28_CroppedPathAfterSave ==
    [][ /\ \A s \in ScanIds :
             store'.scans[s].cropped # store.scans[s].cropped =>
               \E r \in ReqIds :
                  /\ store.reqs[r].kind = "process"
                  /\ store.reqs[r].pc = "update"
                  /\ store.reqs[r].target = s
                  /\ CropSucceeds(store.reqs[r].image)
                  /\ store.reqs[r].path \in DOMAIN store.disk
                  /\ store'.scans[s].cropped = store.reqs[r].path
                  /\ store'.scans[s].original = store.scans[s].original
                  /\ store'.reqs[r].response.kind = "ok"
        /\ \A r \in ReqIds :
             /\ store'.reqs[r].kind = "process" /\ store.reqs[r].kind = "none" =>
                  LET doc == store.scans[store'.reqs[r].target]
                  IN  /\ ~doc.exists =>
                           Answers(r) /\ store'.reqs[r].response.status = 404
                      /\ doc.exists /\ doc.original = NoPath =>
                           Answers(r) /\ store'.reqs[r].response.status = 400
             /\ store.reqs[r].kind = "process" /\ store.reqs[r].pc = "crop"
                   /\ store'.reqs[r] # store.reqs[r] =>
                  LET original == store.reqs[r].original
                  IN  /\ original \notin DOMAIN store.disk =>
                           Answers(r) /\ store'.reqs[r].response.status = 404
                      /\ original \in DOMAIN store.disk
                            /\ ~CropSucceeds(store.disk[original].image) =>
                           Answers(r) /\ store'.reqs[r].response.status = 500
                      /\ store'.reqs[r].pc = "update" =>
                           store'.reqs[r].path \in DOMAIN store'.disk
                      /\ store'.reqs[r].pc # "update" =>
                           Answers(r) /\ store'.reqs[r].response.status \in { 404, 500 }
             /\ store'.reqs[r].kind = "process" /\ Answers(r)
                   /\ store'.reqs[r].response.kind = "error" =>
                  store'.scans = store.scans
      ]_vars

\* a process request has written the cropped path of a scan whose file is
\* on disk, and another process request has ended with a 500
C28_Witness ==
    \E s \in ScanIds, r \in ReqIds, q \in ReqIds :
       /\ store.scans[s].cropped # NoPath
       /\ store.scans[s].cropped \in DOMAIN store.disk
       /\ store.reqs[r].kind = "process" /\ store.reqs[r].response.kind = "ok"
       /\ store.reqs[q].kind = "process" /\ store.reqs[q].pc = "done"
       /\ store.reqs[q].response.kind = "error"
       /\ store.reqs[q].response.status = 500

\* the stored files scan s references
FilesOf(s) ==
    { store.scans[s].original, store.scans[s].cropped } \ { NoPath }

\* C29: under any interleaving of capture, upload and process requests no
\* two scan records reference the same stored file, and every file a scan
\* record references was written for that scan only.
C29_FilesOfOneScan ==
    \A s \in ScanIds : store.scans[s].exists =>
       /\ \A t \in ScanIds \ { s } :
             store.scans[t].exists => FilesOf(s) \cap FilesOf(t) = {}
       /\ \A f \in FilesOf(s) \cap DOMAIN store.disk :
             store.disk[f].for \subseteq { s }

====
